---- MODULE Spec2Model ----
(***************************************************************************)
(* Model of the storyteller pipeline: the React component StoryExpander    *)
(* (frontend state machine; src/unnamed/part_000, lines 99-2631) and the   *)
(* Express backend (src/server.ts, lines 380-1095).                        *)
(*                                                                         *)
(* Nine specifications share the variables:                                *)
(*   GenSpec   - generateWithModel, one completion attempt per step        *)
(*   SrvSpec   - the two structured endpoints (extract-key-elements,       *)
(*               generate-outline), one generation per step                *)
(*   Spec      - the frontend: React state, the async handlers in flight   *)
(*               with the state their closure captured, and localStorage   *)
(*   LiveSpec  - Spec restricted to start/continue, with fairness          *)
(*   ChunkSpec - chunkText of the frontend and of the backend applied to   *)
(*               a text, character by character                            *)
(*   CleanSpec - cleanJsonResponse and JSON.parse applied to a completion  *)
(*   ApiSpec   - the seven generation endpoints with the keys of the       *)
(*               request and of the environment; the image endpoint one    *)
(*               images.generate call per step                             *)
(*   StoreSpec - /api/save-state and /api/load-state over the files of     *)
(*               the working directory                                     *)
(*   DigestSpec - the previous-chapters context of /api/expand-chapter,    *)
(*               by length                                                 *)
(***************************************************************************)
EXTENDS Integers, Sequences, FiniteSets, TLC

VARIABLES st, ops, storage, ev, userOps, overlaps, gen, srv, fn

vars == <<st, ops, storage, ev, userOps, overlaps, gen, srv, fn>>

(***************************************************************************)
(* Bounds of the model                                                     *)
(***************************************************************************)
MaxOps == 2            \* async handlers in flight at once
MaxOverlap == 1        \* handlers started while another one is in flight
MaxUserOps == 2        \* clicks and edits of the user in one run
MaxIdx == 1            \* highest chapter index the user acts on
MaxEditIdx == 0        \* highest chapter index whose prompt is typed
MaxOutline == 2        \* distinct outline entries the model can return
MaxText == 1           \* distinct prose texts the model can return
MaxElem == 1           \* distinct story elements the model can return
BigSentence == 30000   \* bytes of one sentence of the modelled drafts
MaxChars == 4          \* characters of a text given to chunkText
MaxPrev == 3           \* previous chapters sent to /api/expand-chapter

(***************************************************************************)
(* Program constants                                                       *)
(***************************************************************************)
DefaultRetries == 3
FallbackModel == "gpt-4o-mini"
Models == {"gpt-4o-mini", "gpt-4o", "gpt-5-mini", "gpt-5"}
MinChapters == 6
MaxChapters == 10
MaxBytes == 50000
DigestHeader == 67     \* characters of 'EVENTS ALREADY COVERED ...:\n'
EntryFrame == 36       \* characters around the fields of one chapter
DigestCap == 2000
PerChapterBudget == 1000

Min(a, b) == IF a < b THEN a ELSE b

(***************************************************************************)
(* generateWithModel (server.ts 462-492).  gen is the activation of one    *)
(* logical call: the recursion is a loop over (model, retries, isFallback).*)
(* primary / fallback count the completion requests issued with            *)
(* isFallback = false / true, cycles the entries into the fallback cycle.  *)
(* prev is what the caller holds of its previous successful call: <<>> or  *)
(* <<[requested, fellBack, result]>>.                                      *)
(***************************************************************************)
GenIdle ==
  [pc |-> "idle", requested |-> "", model |-> "", retries |-> 0,
   isFallback |-> FALSE, primary |-> 0, fallback |-> 0, failed |-> 0,
   cycles |-> 0, lastError |-> "", output |-> 0, prev |-> <<>>]

\* the call generateWithModel(prompt, model, client) with retries = 3
GenCall(m) ==
  [GenIdle EXCEPT !.pc = "attempt", !.requested = m, !.model = m,
                  !.retries = DefaultRetries]

\* one client.chat.completions.create has been issued
GenCount(g) ==
  IF g.isFallback THEN [g EXCEPT !.fallback = @ + 1]
                  ELSE [g EXCEPT !.primary = @ + 1]

\* a fallback taken as soon as an attempt fails, before the retries are used
GenCatchEager(g, err) ==
  LET h == [GenCount(g) EXCEPT !.lastError = err,
              !.failed = IF g.isFallback THEN @ ELSE @ + 1]
  IN IF ~h.isFallback /\ h.model # FallbackModel
       THEN [h EXCEPT !.model = FallbackModel, !.retries = DefaultRetries,
                      !.isFallback = TRUE, !.cycles = @ + 1]
       ELSE IF h.retries > 0
         THEN [h EXCEPT !.retries = @ - 1]
         ELSE [h EXCEPT !.pc = "error"]

\* the catch branch: retry, fall back once, or rethrow
GenCatch(g, err) ==
  LET h == [GenCount(g) EXCEPT !.lastError = err,
              !.failed = IF g.isFallback THEN @ ELSE @ + 1]
  IN IF h.retries > 0
       THEN [h EXCEPT !.retries = @ - 1]
       ELSE IF ~h.isFallback /\ h.model # FallbackModel
         THEN [h EXCEPT !.model = FallbackModel, !.retries = DefaultRetries,
                        !.isFallback = TRUE, !.cycles = @ + 1]
         ELSE [h EXCEPT !.pc = "error"]

\* the try branch with a non-empty completion
GenReturn(g, text) == [GenCount(g) EXCEPT !.pc = "returned", !.output = text]

\* the value the promise of a returned call resolves with
\* (Promise<string>, server.ts 462, 479): the completion text
GenResult(g) == g.output

\* what the caller keeps of a call that returned
GenKept(g) ==
  [requested |-> g.requested, fellBack |-> g.isFallback,
   result |-> GenResult(g)]


(***************************************************************************)
(* Model output of the structured stages.  A raw completion is a JSON body *)
(* inside a decoration: "plain" (nothing around it), "fenced" (```json ... *)
(* ```), or "prose" (text before the JSON).  The body is "junk" (not       *)
(* JSON), "obj" (JSON of the wrong shape), "arr" (an array of chapter      *)
(* entries; entry 0 is an object without title/summary/timeline) or "ke"   *)
(* (a key-elements object; complete = all five collections are arrays).    *)
(***************************************************************************)
Raw(d, j) == [deco |-> d, json |-> j]
Junk == [k |-> "junk", items |-> <<>>, complete |-> FALSE]
Obj == [k |-> "obj", items |-> <<>>, complete |-> FALSE]
Arr(items) == [k |-> "arr", items |-> items, complete |-> FALSE]
KE(chars, complete) == [k |-> "ke", items |-> chars, complete |-> complete]

\* the result of one generateWithModel call as its caller sees it
GenFailed == [ok |-> FALSE, raw |-> Raw("plain", Junk)]
GenText(r) == [ok |-> TRUE, raw |-> r]

\* cleanJsonResponse (server.ts 454-460): strips the ```json fence; text in
\* front of the JSON stays
cleanJsonResponse(r) ==
  IF r.deco = "fenced" THEN [r EXCEPT !.deco = "plain"] ELSE r

\* JSON.parse succeeds on undecorated JSON only
JsonParses(r) == r.deco = "plain" /\ r.json.k # "junk"

\* chapters.map(...) of the outline endpoint (server.ts 673-679): entry 0
\* gets the default title "Chapter idx" (modelled as -idx)
BackfillChapters(items) ==
  [i \in 1..Len(items) |-> IF items[i] = 0 THEN 0 - i ELSE items[i]]

\* an outline bound that rejects a 10-chapter outline
OutlineCountOkStrict(n) == n >= MinChapters /\ n < MaxChapters

\* the cardinality check of the outline endpoint (server.ts 680, 722)
OutlineCountOk(n) == n >= MinChapters /\ n <= MaxChapters

\* first try block of generate-outline (server.ts 668-685)
ParseOutlineFirst(cleaned) ==
  IF ~JsonParses(cleaned) THEN [ok |-> FALSE, chapters |-> <<>>]
  ELSE IF cleaned.json.k # "arr" THEN [ok |-> FALSE, chapters |-> <<>>]
  ELSE IF ~OutlineCountOk(Len(cleaned.json.items))
    THEN [ok |-> FALSE, chapters |-> <<>>]
  ELSE [ok |-> TRUE, chapters |-> BackfillChapters(cleaned.json.items)]

\* retry try block of generate-outline (server.ts 713-727): no isArray
\* test, chapters.map throws on a non-array
ParseOutlineRetry(cleaned) ==
  IF ~JsonParses(cleaned) THEN [ok |-> FALSE, chapters |-> <<>>]
  ELSE IF cleaned.json.k # "arr" THEN [ok |-> FALSE, chapters |-> <<>>]
  ELSE IF ~OutlineCountOk(Len(cleaned.json.items))
    THEN [ok |-> FALSE, chapters |-> <<>>]
  ELSE [ok |-> TRUE, chapters |-> BackfillChapters(cleaned.json.items)]

\* characters.map(...) of extract-key-elements (server.ts 567-573,
\* 596-602): a character without a name becomes "Character idx"
BackfillCharacters(items) ==
  [i \in 1..Len(items) |-> IF items[i] = 0 THEN 0 - i ELSE items[i]]

\* both try blocks of extract-key-elements (server.ts 556-576, 594-612):
\* the five collections must be arrays; characters are backfilled
ParseKeyElements(cleaned) ==
  IF ~JsonParses(cleaned) THEN [ok |-> FALSE, keyElements |-> <<>>]
  ELSE IF cleaned.json.k # "ke" \/ ~cleaned.json.complete
    THEN [ok |-> FALSE, keyElements |-> <<>>]
  ELSE [ok |-> TRUE,
        keyElements |-> <<[characters |-> BackfillCharacters(cleaned.json.items)]>>]

(***************************************************************************)
(* HTTP responses.  status 0 is a request whose handler ended in a         *)
(* rejected promise: the error object exists (thrown) but the handler sent *)
(* no response.  data, rawResponse and thrownRaw are <<>> when absent and  *)
(* <<v>> when present.                                                     *)
(***************************************************************************)
Resp(status, data, raw, gens) ==
  [status |-> status, data |-> data, rawResponse |-> raw,
   thrownRaw |-> <<>>, gens |-> gens]
Escaped(raw, gens) ==
  [status |-> 0, data |-> <<>>, rawResponse |-> <<>>,
   thrownRaw |-> raw, gens |-> gens]

\* what the client gets.  The router of the installed express (the
\* sources pin no version) either drops the rejected promise of an async
\* handler, and the request stays unanswered, or passes the error to the
\* global error handler (server.ts 1085-1090), which answers 500 with the
\* message alone
Deliver(resp, routed) ==
  IF resp.status = 0 /\ routed THEN [resp EXCEPT !.status = 500] ELSE resp

\* generate-outline answers every error from its catch (server.ts 735-745)
OutlineFail(raw, gens) == Resp(500, <<>>, raw, gens)
\* extract-key-elements has no try/catch around its body (server.ts 530-621)
ExtractFail(raw, gens) == Escaped(raw, gens)

ParseFirst(kind, cleaned) ==
  IF kind = "outline"
    THEN [ok |-> ParseOutlineFirst(cleaned).ok,
          data |-> <<ParseOutlineFirst(cleaned).chapters>>]
    ELSE [ok |-> ParseKeyElements(cleaned).ok,
          data |-> ParseKeyElements(cleaned).keyElements]
ParseRetry(kind, cleaned) ==
  IF kind = "outline"
    THEN [ok |-> ParseOutlineRetry(cleaned).ok,
          data |-> <<ParseOutlineRetry(cleaned).chapters>>]
    ELSE [ok |-> ParseKeyElements(cleaned).ok,
          data |-> ParseKeyElements(cleaned).keyElements]
StageFail(kind, raw, gens) ==
  IF kind = "outline" THEN OutlineFail(raw, gens) ELSE ExtractFail(raw, gens)

\* a stage that keeps asking: a third completion after two contract failures
StructuredStageThrice(kind, g1, g2) ==
  IF ~g1.ok THEN StageFail(kind, <<>>, 1)
  ELSE IF ParseFirst(kind, cleanJsonResponse(g1.raw)).ok
    THEN Resp(200, ParseFirst(kind, cleanJsonResponse(g1.raw)).data, <<>>, 1)
  ELSE IF ~g2.ok THEN StageFail(kind, <<>>, 2)
  ELSE IF ParseRetry(kind, cleanJsonResponse(g2.raw)).ok
    THEN Resp(200, ParseRetry(kind, cleanJsonResponse(g2.raw)).data, <<>>, 2)
  ELSE StageFail(kind, <<cleanJsonResponse(g2.raw)>>, 3)

\* generation, clean, parse; on a contract failure one generation with the
\* stricter prompt, clean, parse; then the error with rawResponse
\* (server.ts 553-617 and 665-732).  g1, g2 are the outcomes the two
\* generateWithModel calls have if they are made; gens counts the calls made.
StructuredStage(kind, g1, g2) ==
  IF ~g1.ok THEN StageFail(kind, <<>>, 1)
  ELSE IF ParseFirst(kind, cleanJsonResponse(g1.raw)).ok
    THEN Resp(200, ParseFirst(kind, cleanJsonResponse(g1.raw)).data, <<>>, 1)
  ELSE IF ~g2.ok THEN StageFail(kind, <<>>, 2)
  ELSE IF ParseRetry(kind, cleanJsonResponse(g2.raw)).ok
    THEN Resp(200, ParseRetry(kind, cleanJsonResponse(g2.raw)).data, <<>>, 2)
  ELSE StageFail(kind, <<cleanJsonResponse(g2.raw)>>, 2)

\* POST /api/generate-outline (server.ts 623-746)
GenerateOutline(req, g1, g2) ==
  IF req.condensedDraft = <<>> THEN Resp(400, <<>>, <<>>, 0)
  ELSE IF req.keyElements = <<>> THEN Resp(400, <<>>, <<>>, 0)
  ELSE IF ~req.cred THEN Resp(401, <<>>, <<>>, 0)
  ELSE StructuredStage("outline", g1, g2)

\* POST /api/extract-key-elements (server.ts 530-621)
ExtractKeyElements(req, g1, g2) ==
  IF req.condensedDraft = <<>> THEN Resp(400, <<>>, <<>>, 0)
  ELSE IF ~req.cred THEN Resp(401, <<>>, <<>>, 0)
  ELSE StructuredStage("extract", g1, g2)

(***************************************************************************)
(* Free-text endpoints.  g is the outcome of the one generateWithModel     *)
(* call: [ok, text]; text is never empty (generateWithModel throws         *)
(* 'Empty response' and that is a failed generation).                      *)
(***************************************************************************)
\* POST /api/summarize-draft (server.ts 494-528); an empty chunk is falsy
SummarizeDraft(req, g) ==
  IF req.draft = <<>> THEN Resp(400, <<>>, <<>>, 0)
  ELSE IF ~req.cred THEN Resp(401, <<>>, <<>>, 0)
  ELSE IF ~g.ok THEN Resp(500, <<>>, <<>>, 1)
  ELSE Resp(200, <<g.text>>, <<>>, 1)

\* POST /api/expand-chapter (server.ts 748-864)
ExpandChapter(req, g) ==
  IF req.keyElements = <<>> THEN Resp(400, <<>>, <<>>, 0)
  ELSE IF ~req.cred THEN Resp(401, <<>>, <<>>, 0)
  ELSE IF ~g.ok THEN Resp(500, <<>>, <<>>, 1)
  ELSE Resp(200, <<g.text>>, <<>>, 1)

\* POST /api/expand-chapter-more (server.ts 867-918): the completion (the
\* "COMPLETE expanded chapter") is returned as details
ExpandChapterMore(req, g) ==
  IF req.existingDetails = 0 THEN Resp(400, <<>>, <<>>, 0)
  ELSE IF ~req.cred THEN Resp(401, <<>>, <<>>, 0)
  ELSE IF ~g.ok THEN Resp(500, <<>>, <<>>, 1)
  ELSE Resp(200, <<g.text>>, <<>>, 1)

(***************************************************************************)
(* Frontend values.  A draft is the sequence of the byte lengths of its    *)
(* sentences (<<>> is the empty string); a condensed draft is the sequence *)
(* of its chunk summaries; prose texts, prompts and outline entries are    *)
(* numbers, 0 being the empty string.                                      *)
(***************************************************************************)
Drafts == {<<BigSentence>>, <<BigSentence, BigSentence>>}
Texts == 1..MaxText
OutlineIds == 1..MaxOutline
Prompts == {1}

\* text.match(/[^.!?]+[.!?]+/gs) || [text]  (part_000 240)
Sentences(text) == IF text = <<>> THEN <<0>> ELSE text

RECURSIVE ChunkLoop(_, _, _, _, _, _)
\* the for loop of chunkText (part_000 242-255); truthy is currentChunk's
\* truthiness, cur the sentences it holds
ChunkLoop(sents, maxBytes, truthy, cur, curBytes, chunks) ==
  IF sents = <<>>
    THEN IF truthy THEN Append(chunks, cur) ELSE chunks
    ELSE LET sb == Head(sents)
             one == IF sb > 0 THEN <<sb>> ELSE <<>>
         IN IF curBytes + sb > maxBytes
              THEN ChunkLoop(Tail(sents), maxBytes, sb > 0, one, sb,
                             IF truthy THEN Append(chunks, cur) ELSE chunks)
              ELSE ChunkLoop(Tail(sents), maxBytes, TRUE, cur \o one,
                             curBytes + sb, chunks)

\* chunkText(text, maxBytes = 50000)  (part_000 235-262)
chunkText(text) == ChunkLoop(Sentences(text), MaxBytes, FALSE, <<>>, 0, <<>>)

\* hashDraft (part_000 264-296): '' hashes to ''; otherwise a digest of the
\* content (here the polynomial hash of the fallback branch, h * 31 + c,
\* kept to 16 bits so that the products stay inside the checker's integers)
RECURSIVE HashLoop(_, _)
HashLoop(text, h) ==
  IF text = <<>> THEN h
  ELSE HashLoop(Tail(text), (h * 31 + Head(text)) % 65536)
hashDraft(text) == IF text = <<>> THEN 0 ELSE 1 + HashLoop(text, 0)

\* a[i] = v on a JavaScript array (0-based i); writing past the end
\* leaves holes, which read as falsy (0)
ArrSet(a, i, v) ==
  [k \in 1..(IF i + 1 > Len(a) THEN i + 1 ELSE Len(a)) |->
     IF k = i + 1 THEN v ELSE IF k <= Len(a) THEN a[k] ELSE 0]
\* a[i] || dflt
ArrGet(a, i) == IF i + 1 <= Len(a) /\ i >= 0 THEN a[i + 1] ELSE 0
Fill(n, v) == [k \in 1..n |-> v]

(***************************************************************************)
(* React state of StoryExpander (part_000 134-168).  chapterLoading is -1  *)
(* for null; keyElements and rawError are <<>> for null / ''.              *)
(***************************************************************************)
InitState ==
  [draft |-> <<>>, draftHash |-> 0, condensedDraft |-> <<>>,
   keyElements |-> <<>>, chapters |-> <<>>, expandedChapters |-> <<>>,
   expansionCounts |-> <<>>, chapterPrompts |-> <<>>,
   currentStep |-> 0, currentChapterIndex |-> 0,
   isLoading |-> FALSE, chapterLoading |-> -1,
   error |-> "", rawError |-> <<>>]

\* the object saveProgress serialises (part_000 524-541), from the state
\* the calling closure captured
Blob(c) ==
  [draft |-> c.draft, draftHash |-> c.draftHash,
   condensedDraft |-> c.condensedDraft, keyElements |-> c.keyElements,
   chapters |-> c.chapters, expandedChapters |-> c.expandedChapters,
   expansionCounts |-> c.expansionCounts,
   chapterPrompts |-> c.chapterPrompts, currentStep |-> c.currentStep,
   currentChapterIndex |-> c.currentChapterIndex]

\* saveProgress() (part_000 523-542) called from a handler whose closure
\* holds c: the setters the handler called have not re-rendered yet, so
\* the state of c's render is what is written to localStorage
saveProgress(c) == <<Blob(c)>>

(***************************************************************************)
(* Async handlers in flight.  An operation keeps the state of the render   *)
(* that created its closure (snap), its argument, a loop index and an      *)
(* accumulator.                                                            *)
(***************************************************************************)
NoOp == [kind |-> "none", phase |-> "", arg |-> 0, i |-> 0, acc |-> <<>>,
         snap |-> InitState]
Op(kind, phase, arg, c) ==
  [kind |-> kind, phase |-> phase, arg |-> arg, i |-> 0, acc |-> <<>>,
   snap |-> c]
Slots == 1..MaxOps
HasFree(o) == \E s \in Slots : o[s].kind = "none"
Free(o) == CHOOSE s \in Slots :
             o[s].kind = "none" /\ \A t \in Slots : o[t].kind = "none" => s <= t

Complete(c) == c.currentStep = 3 /\ c.currentChapterIndex >= Len(c.chapters)

\* which branch of processStep the closure state c selects (part_000 796,
\* 819, 837, 877)
PSBranch(c) ==
  IF c.currentStep = 0 THEN "summarize"
  ELSE IF c.currentStep = 1 THEN "extract"
  ELSE IF c.currentStep = 2 THEN "outline"
  ELSE IF c.currentStep = 3 /\ c.currentChapterIndex < Len(c.chapters)
    THEN "expand"
  ELSE "none"

\* the synchronous head of processStep() (part_000 791-795, 881-882) run
\* from a closure holding c while the committed state is s; the operation
\* takes slot.  With no branch to run, try and finally complete at once.
BeginProcessStep(s, o, c, slot) ==
  IF PSBranch(c) = "none"
    THEN [st |-> [s EXCEPT !.isLoading = FALSE, !.chapterLoading = -1,
                           !.error = "", !.rawError = <<>>],
          ops |-> [o EXCEPT ![slot] = NoOp]]
    ELSE [st |-> [s EXCEPT !.isLoading = TRUE, !.error = "",
                           !.rawError = <<>>,
                           !.chapterLoading =
                              IF PSBranch(c) = "expand"
                                THEN c.currentChapterIndex ELSE @],
          ops |-> [o EXCEPT ![slot] =
                     Op("processStep", PSBranch(c), c.currentChapterIndex, c)]]

\* the auto-advance effect (part_000 1528-1534) runs after a render in
\* which one of its dependencies changed
EffectDeps(c) ==
  <<c.currentStep, c.currentChapterIndex, Len(c.chapters), c.condensedDraft>>
\* an effect that never starts processStep
EffectNever(old, new) == FALSE

EffectFires(old, new) ==
  /\ EffectDeps(old) # EffectDeps(new)
  /\ ~(new.isLoading \/ Complete(new))
  /\ (new.currentStep > 0 \/ new.condensedDraft # <<>>)

\* React commits the batched setters (new) and runs the effect
Rendered(old, new, o) ==
  IF EffectFires(old, new)
    THEN BeginProcessStep(new, o, new, Free(o))
    ELSE [st |-> new, ops |-> o]
CanRender(old, new, o) == EffectFires(old, new) => HasFree(o)

(***************************************************************************)
(* What the model can answer in the frontend specification                 *)
(***************************************************************************)
TextGens == {[ok |-> FALSE, text |-> 0]} \cup
            {[ok |-> TRUE, text |-> t] : t \in Texts}
OutlineLens == {MinChapters, MinChapters + 1}
GoodOutlines == {Raw("plain", Arr(Fill(n, v))) : n \in OutlineLens,
                                                 v \in OutlineIds}
BadOutlines == {Raw("plain", Junk),
                Raw("plain", Arr(Fill(MinChapters - 1, 1)))}
OutlineGens == {GenFailed} \cup {GenText(r) : r \in GoodOutlines \cup BadOutlines}
KeyElementGens == {GenFailed, GenText(Raw("prose", Junk))} \cup
                  {GenText(Raw("fenced", KE(<<c>>, TRUE))) : c \in 1..MaxElem}
ImageOutcomes == {"ok", "skip", "throw"}

\* the responses a request from a closure holding c can get from the two
\* structured endpoints: with or without credentials, over the outcomes of
\* the two generations
OutlineResponses(c) ==
  {GenerateOutline([condensedDraft |-> c.condensedDraft,
                    keyElements |-> c.keyElements, cred |-> cred], g1, g2) :
     cred \in BOOLEAN, g1 \in OutlineGens, g2 \in OutlineGens}
KeyElementResponses(c) ==
  {Deliver(ExtractKeyElements([condensedDraft |-> c.condensedDraft,
                               cred |-> cred], g1, g2), routed) :
     cred \in BOOLEAN, g1 \in KeyElementGens, g2 \in KeyElementGens,
     routed \in BOOLEAN}

\* data.chapters.map(...) of the frontend (part_000 750-756, 862-868,
\* 1418-1424): an entry without title becomes 'Untitled Chapter'
ValidateChapters(chs) ==
  [i \in 1..Len(chs) |-> IF chs[i] = 0 THEN 0 - (MaxChapters + 1) ELSE chs[i]]

Ev(op, phase, result, arg) ==
  [op |-> op, phase |-> phase, result |-> result, arg |-> arg]

Busy(o) == Cardinality({s \in Slots : o[s].kind # "none"})

\* 1 when the step starts a handler (o holds one more than ops, or the
\* effect starts processStep) while another handler is in flight
Overlap(n, o) ==
  IF \/ Busy(o) > Busy(ops) /\ Busy(o) >= 2
     \/ EffectFires(st, n) /\ Busy(o) >= 1
    THEN 1 ELSE 0

\* one handler step: the setters it called are committed as n, the effect
\* runs, localStorage becomes sto.  saveProgress also posts what it wrote
\* to /api/save-state (part_000 544-577), which writes it to the story
\* file of the server (server.ts 1044-1052); the post is taken to arrive
\* at once and to succeed.  Nothing else writes that file.
Step(n, o, sto, e, u) ==
  /\ CanRender(st, n, o)
  /\ overlaps + Overlap(n, o) <= MaxOverlap
  /\ overlaps' = overlaps + Overlap(n, o)
  /\ st' = Rendered(st, n, o).st
  /\ ops' = Rendered(st, n, o).ops
  /\ storage' = sto
  /\ ev' = e
  /\ userOps' = u
  /\ srv' = [srv EXCEPT !.story = IF sto # <<>> THEN sto ELSE @]
  /\ UNCHANGED <<gen, fn>>

InFlight(s, kind, phase) == ops[s].kind = kind /\ ops[s].phase = phase
Done(s) == [ops EXCEPT ![s] = NoOp]

(***************************************************************************)
(* processStep (part_000 791-986)                                          *)
(***************************************************************************)
\* a catch that also drops the outline and rewinds the pointer
PSCatchRewind(cur, raw) ==
  [cur EXCEPT !.error = "Step failed", !.rawError = raw,
              !.currentStep = 0, !.currentChapterIndex = 0,
              !.chapters = <<>>,
              !.isLoading = FALSE, !.chapterLoading = -1]

\* catch and finally (part_000 979-985)
PSCatch(cur, raw) ==
  [cur EXCEPT !.error = "Step failed", !.rawError = raw,
              !.isLoading = FALSE, !.chapterLoading = -1]

\* finally after a completed try
PSFinally(cur) == [cur EXCEPT !.isLoading = FALSE, !.chapterLoading = -1]

PSFail(s, phase, resp) ==
  Step(PSCatch(st, resp.rawResponse), Done(s), storage,
       Ev("processStep", phase,
          IF resp.rawResponse # <<>> THEN "contract" ELSE "fail",
          ops[s].arg),
       userOps)

\* handleContinue (part_000 1033-1036) behind the Continue button
\* (part_000 2009-2013)
Continue ==
  /\ userOps < MaxUserOps
  /\ ~st.isLoading
  /\ ~Complete(st)
  /\ HasFree(ops)
  /\ LET b == BeginProcessStep(st, ops, st, Free(ops))
     IN Step(b.st, b.ops, storage,
             Ev("handleContinue", PSBranch(st), "start", 0), userOps + 1)

\* handleSubmit up to its first await (part_000 988-994) behind the submit
\* button (part_000 2002-2005)
Submit ==
  /\ userOps < MaxUserOps
  /\ ~st.isLoading
  /\ st.draft # <<>>
  /\ HasFree(ops)
  /\ Step(st, [ops EXCEPT ![Free(ops)] = Op("handleSubmit", "hash", 0, st)],
          storage, Ev("handleSubmit", "hash", "start", 0), userOps + 1)

\* hashDraft resolved (part_000 994-998, 1027-1030): a fresh start goes for
\* the image style, a resume calls processStep() of the same closure; the
\* result of the event is the status the branch sets ('Analyzing draft...'
\* or 'Resuming from saved progress...')
SubmitHashed(s) ==
  /\ InFlight(s, "handleSubmit", "hash")
  /\ LET c == ops[s].snap
         n == [st EXCEPT !.draftHash = hashDraft(c.draft)]
     IN IF c.currentStep = 0 /\ c.condensedDraft = <<>>
          THEN Step(n, [ops EXCEPT ![s].phase = "style"], storage,
                    Ev("handleSubmit", "style", "analyzing", 0), userOps)
          ELSE LET b == BeginProcessStep(n, ops, c, s)
               IN Step(b.st, b.ops, storage,
                       Ev("handleSubmit", PSBranch(c), "resuming", 0), userOps)

\* /api/generate-image-style answered or failed (part_000 1000-1026)
SubmitStyled(s) ==
  /\ InFlight(s, "handleSubmit", "style")
  /\ LET b == BeginProcessStep(st, ops, ops[s].snap, s)
     IN Step(b.st, b.ops, storage,
             Ev("handleSubmit", PSBranch(ops[s].snap), "start", 0), userOps)

\* a loop that goes on to the next chunk when a chunk failed
PSSummarizedSkipping(s, g, cred) ==
  /\ InFlight(s, "processStep", "summarize")
  /\ LET c == ops[s].snap
         chunks == chunkText(c.draft)
         resp == SummarizeDraft([draft |-> chunks[ops[s].i + 1],
                                 cred |-> cred], g)
         acc == ops[s].acc \o resp.data
     IN IF ops[s].i + 1 < Len(chunks)
          THEN Step(st, [ops EXCEPT ![s].i = @ + 1, ![s].acc = acc],
                    storage,
                    Ev("processStep", "summarize",
                       IF resp.status # 200 THEN "fail" ELSE "chunk", 0),
                    userOps)
        ELSE Step(PSFinally([st EXCEPT !.condensedDraft = acc,
                                       !.currentStep = 1]),
                  Done(s), saveProgress(c),
                  Ev("processStep", "summarize", "ok", 0), userOps)

\* one /api/summarize-draft answer in the loop of step 0 (part_000 796-818)
PSSummarized(s, g, cred) ==
  /\ InFlight(s, "processStep", "summarize")
  /\ LET c == ops[s].snap
         chunks == chunkText(c.draft)
         resp == SummarizeDraft([draft |-> chunks[ops[s].i + 1],
                                 cred |-> cred], g)
         acc == ops[s].acc \o resp.data
     IN IF resp.status # 200 THEN PSFail(s, "summarize", resp)
        ELSE IF ops[s].i + 1 < Len(chunks)
          THEN Step(st, [ops EXCEPT ![s].i = @ + 1, ![s].acc = acc],
                    storage, Ev("processStep", "summarize", "chunk", 0),
                    userOps)
        ELSE Step(PSFinally([st EXCEPT !.condensedDraft = acc,
                                       !.currentStep = 1]),
                  Done(s), saveProgress(c),
                  Ev("processStep", "summarize", "ok", 0), userOps)

\* the /api/extract-key-elements answer of step 1 (part_000 819-836); a
\* request the server never answers either stays pending or is reset
PSExtracted(s, resp) ==
  /\ InFlight(s, "processStep", "extract")
  /\ LET c == ops[s].snap
     IN IF resp.status # 200 THEN PSFail(s, "extract", resp)
        ELSE Step(PSFinally([st EXCEPT !.keyElements = resp.data,
                                       !.currentStep = 2]),
                  Done(s), saveProgress(c),
                  Ev("processStep", "extract", "ok", 0), userOps)

\* the /api/generate-outline answer of step 2 (part_000 837-876)
PSOutlined(s, resp) ==
  /\ InFlight(s, "processStep", "outline")
  /\ LET c == ops[s].snap
         validated == ValidateChapters(resp.data[1])
         n == Len(validated)
     IN IF resp.status # 200 THEN PSFail(s, "outline", resp)
        ELSE Step(PSFinally([st EXCEPT !.chapters = validated,
                                       !.expandedChapters = Fill(n, 0),
                                       !.expansionCounts = Fill(n, 0),
                                       !.chapterPrompts = Fill(n, 0),
                                       !.currentStep = 3,
                                       !.currentChapterIndex = 0]),
                  Done(s), saveProgress(c),
                  Ev("processStep", "outline", "ok", 0), userOps)

\* the /api/expand-chapter answer of step 3 (part_000 877-909): the text
\* is set, the image calls follow
PSExpanded(s, g, cred) ==
  /\ InFlight(s, "processStep", "expand")
  /\ LET c == ops[s].snap
         resp == ExpandChapter([keyElements |-> c.keyElements,
                                cred |-> cred], g)
     IN IF resp.status # 200 THEN PSFail(s, "expand", resp)
        ELSE Step([st EXCEPT !.expandedChapters =
                      ArrSet(c.expandedChapters, c.currentChapterIndex,
                             resp.data[1])],
                  [ops EXCEPT ![s].phase = "image"], storage,
                  Ev("processStep", "expand", "text", c.currentChapterIndex),
                  userOps)

\* the image prompt and image calls of step 3 are over (part_000 911-978):
\* "ok" with an image, "skip" without one, "throw" when fetch or
\* parseJsonResponse throws
PSImaged(s, outcome) ==
  /\ InFlight(s, "processStep", "image")
  /\ LET c == ops[s].snap
     IN IF outcome = "throw"
          THEN PSFail(s, "image", Resp(0, <<>>, <<>>, 0))
          ELSE Step(PSFinally([st EXCEPT !.chapters = c.chapters,
                                 !.currentChapterIndex =
                                    c.currentChapterIndex + 1]),
                    Done(s), saveProgress(c),
                    Ev("processStep", "expand", "ok", c.currentChapterIndex),
                    userOps)

(***************************************************************************)
(* User edits and regenerations.  Each click is counted in userOps.        *)
(***************************************************************************)
Budget == userOps < MaxUserOps

\* nothing is in flight and the textarea holds the draft that was submitted
Quiet ==
  /\ Busy(ops) = 0
  /\ ~st.isLoading
  /\ st.draft # <<>>
  /\ st.draftHash = hashDraft(st.draft)

\* the draft textarea, onChange (part_000 1891); typing the first draft
\* and replacing the submitted draft while nothing is in flight are not
\* counted, any other replacement is
SetDraft(d) ==
  /\ d # st.draft
  /\ (st.draft # <<>> /\ ~Quiet) => Budget
  /\ Step([st EXCEPT !.draft = d], ops, storage,
          Ev("setDraft", "", "ok", 0),
          IF st.draft = <<>> \/ Quiet THEN userOps ELSE userOps + 1)

\* regenerateSummary up to its first await (part_000 599-611) behind its
\* button (part_000 2063-2067)
RegenerateSummary ==
  /\ Budget
  /\ st.condensedDraft # <<>>
  /\ ~st.isLoading
  /\ HasFree(ops)
  /\ Step([st EXCEPT !.isLoading = TRUE, !.error = "", !.rawError = <<>>],
          [ops EXCEPT ![Free(ops)] =
             Op("regenerateSummary", "summarize", 0, st)],
          storage, Ev("regenerateSummary", "summarize", "start", 0),
          userOps + 1)

\* a commit that replaces the summary and keeps what was derived from the
\* old one
RSCommitSummaryOnly(n, summary) ==
  [n EXCEPT !.condensedDraft = summary,
            !.currentStep = 0,
            !.currentChapterIndex = 0,
            !.isLoading = FALSE]

\* the setters after the last chunk (part_000 623-630) and the finally
\* (636-638)
RSCommit(n, summary) ==
  [n EXCEPT !.condensedDraft = summary,
            !.keyElements = <<>>,
            !.chapters = <<>>,
            !.expandedChapters = <<>>,
            !.expansionCounts = <<>>,
            !.chapterPrompts = <<>>,
            !.currentStep = 0,
            !.currentChapterIndex = 0,
            !.isLoading = FALSE]

\* one /api/summarize-draft answer in regenerateSummary (part_000 609-638)
RSSummarized(s) ==
  /\ InFlight(s, "regenerateSummary", "summarize")
  /\ \E g \in TextGens, cred \in BOOLEAN :
       LET c == ops[s].snap
           chunks == chunkText(c.draft)
           resp == SummarizeDraft([draft |-> chunks[ops[s].i + 1],
                                   cred |-> cred], g)
           acc == ops[s].acc \o resp.data
       IN IF resp.status # 200
            THEN Step([st EXCEPT !.error = "Regeneration failed",
                                 !.rawError = <<>>, !.isLoading = FALSE],
                      Done(s), storage,
                      Ev("regenerateSummary", "summarize", "fail", 0), userOps)
          ELSE IF ops[s].i + 1 < Len(chunks)
            THEN Step(st, [ops EXCEPT ![s].i = @ + 1, ![s].acc = acc],
                      storage, Ev("regenerateSummary", "summarize", "chunk", 0),
                      userOps)
          ELSE Step(RSCommit(st, acc), Done(s), saveProgress(c),
                    Ev("regenerateSummary", "summarize", "ok", 0), userOps)

\* the per-chapter prompt textarea, onChange (part_000 2177-2183,
\* 2265-2271); typing is not counted as a click
EditChapterPrompt(idx, text) ==
  /\ idx < Len(st.chapters)
  /\ ArrGet(st.chapterPrompts, idx) # text
  /\ Step([st EXCEPT !.chapterPrompts = ArrSet(st.chapterPrompts, idx, text)],
          ops, storage, Ev("editChapterPrompt", "", "ok", idx), userOps)

\* the state regenerateFromChapterPrompt(k) sets from the validated
\* outline (part_000 758-788); the index updater reads the committed state
RFCommit(cur, c, k, validated) ==
  [cur EXCEPT !.chapters = validated,
              !.expandedChapters =
                 [i \in 1..Len(validated) |->
                    IF i - 1 < k THEN ArrGet(c.expandedChapters, i - 1) ELSE 0],
              !.expansionCounts =
                 [i \in 1..Len(validated) |->
                    IF i - 1 < k THEN ArrGet(c.expansionCounts, i - 1) ELSE 0],
              !.chapterPrompts =
                 [i \in 1..Len(validated) |-> ArrGet(c.chapterPrompts, i - 1)],
              !.currentStep = 3,
              !.currentChapterIndex =
                 Min(cur.currentChapterIndex, Len(validated)),
              !.isLoading = FALSE]

\* handleSaveChapterPrompt(idx) (part_000 1353-1367) with the head of
\* regenerateFromChapterPrompt(idx) (part_000 642-656)
SaveChapterPrompt(idx) ==
  /\ Budget
  /\ idx < Len(st.chapters)
  /\ IF st.isLoading
       THEN Step(st, ops, saveProgress(st),
                 Ev("handleSaveChapterPrompt", "", "skipped", idx),
                 userOps + 1)
     ELSE IF st.condensedDraft = <<>> \/ st.keyElements = <<>>
       THEN Step([st EXCEPT !.error = "Cannot regenerate outline"], ops,
                 saveProgress(st),
                 Ev("handleSaveChapterPrompt", "", "rejected", idx),
                 userOps + 1)
     ELSE /\ HasFree(ops)
          /\ Step([st EXCEPT !.isLoading = TRUE, !.error = "",
                             !.rawError = <<>>],
                  [ops EXCEPT ![Free(ops)] =
                     Op("regenerateFromChapterPrompt", "augment", idx, st)],
                  saveProgress(st),
                  Ev("regenerateFromChapterPrompt", "augment", "start", idx),
                  userOps + 1)

RECURSIVE Dedup(_, _)
\* the values of a Map filled in the order of names: the first entry of
\* every name, seen the names already taken
Dedup(names, seen) ==
  IF names = <<>> THEN <<>>
  ELSE IF Head(names) \in seen THEN Dedup(Tail(names), seen)
  ELSE <<Head(names)>> \o Dedup(Tail(names), seen \cup {Head(names)})

\* mergedCharacters (part_000 712-720): the existing characters by name,
\* then the new ones whose name is not taken
mergedCharacters(old, new) == Dedup(old \o new, {})

\* augmentedKeyElements (part_000 692-735): the merge when the extract
\* request answered 200 with key elements, the key elements of the closure
\* otherwise
Augmented(keyElements, resp) ==
  IF resp.status = 200 /\ resp.data # <<>>
    THEN <<[characters |->
              mergedCharacters(keyElements[1].characters,
                               resp.data[1].characters)]>>
    ELSE keyElements

\* what /api/extract-key-elements can answer to the augmentation request:
\* the context may have introduced a character the story did not have
AugmentGens ==
  KeyElementGens \cup {GenText(Raw("fenced", KE(<<MaxElem + 1>>, TRUE)))}
AugmentResponses(c) ==
  {Deliver(ExtractKeyElements([condensedDraft |-> c.condensedDraft,
                               cred |-> cred], g1, g2), routed) :
     cred \in BOOLEAN, g1 \in AugmentGens, g2 \in AugmentGens,
     routed \in BOOLEAN}

\* the /api/extract-key-elements answer in regenerateFromChapterPrompt
\* (part_000 692-735): the augmented key elements are a local of the
\* handler, kept in acc
RFAugmented(s) ==
  /\ InFlight(s, "regenerateFromChapterPrompt", "augment")
  /\ \E resp \in AugmentResponses(ops[s].snap) :
       Step(st, [ops EXCEPT ![s].phase = "outline",
                            ![s].acc = Augmented(ops[s].snap.keyElements, resp)],
            storage,
            Ev("regenerateFromChapterPrompt", "augment",
               IF resp.status = 200 THEN "merged" ELSE "kept", ops[s].arg),
            userOps)

\* the /api/generate-outline answer in regenerateFromChapterPrompt; the
\* augmented key elements are sent with the request (part_000 738-742)
\* and set nowhere
RFOutlined(s) ==
  /\ InFlight(s, "regenerateFromChapterPrompt", "outline")
  /\ \E resp \in OutlineResponses(ops[s].snap) :
       LET c == ops[s].snap
           k == ops[s].arg
       IN IF resp.status # 200
            THEN Step([st EXCEPT !.error = "Outline regeneration failed",
                                 !.rawError = resp.rawResponse,
                                 !.isLoading = FALSE],
                      Done(s), storage,
                      Ev("regenerateFromChapterPrompt", "outline", "fail", k),
                      userOps)
            ELSE Step(RFCommit(st, c, k, ValidateChapters(resp.data[1])),
                      Done(s), saveProgress(c),
                      Ev("regenerateFromChapterPrompt", "outline", "ok", k),
                      userOps)

\* the next index at or after from whose per-chapter prompt is set, inside
\* both arrays (the loop of part_000 1427-1429); -1 when there is none
NextPrompted(prompts, from, len) ==
  LET cand == {i \in from..(Min(Len(prompts), len) - 1) : prompts[i + 1] # 0}
  IN IF cand = {} THEN 0 - 1
     ELSE CHOOSE i \in cand : \A j \in cand : i <= j

\* the state handleRegenerateOutline sets at its end (part_000 1471-1496)
ROCommit(cur, c, validated) ==
  [cur EXCEPT !.chapters = validated,
              !.expandedChapters =
                 [i \in 1..Len(validated) |-> ArrGet(c.expandedChapters, i - 1)],
              !.expansionCounts =
                 [i \in 1..Len(validated) |-> ArrGet(c.expansionCounts, i - 1)],
              !.chapterPrompts =
                 [i \in 1..Len(validated) |-> ArrGet(c.chapterPrompts, i - 1)],
              !.isLoading = FALSE]

ROFail(s, resp) ==
  Step([st EXCEPT !.error = "Outline regeneration failed",
                  !.rawError = resp.rawResponse, !.isLoading = FALSE],
       Done(s), storage,
       Ev("handleRegenerateOutline", "outline", "fail", 0), userOps)

\* handleRegenerateOutline up to its first await (part_000 1381-1411)
\* behind its button (part_000 2126, 2155-2158)
RegenerateOutline ==
  /\ Budget
  /\ Len(st.chapters) > 0
  /\ ~st.isLoading
  /\ IF st.condensedDraft = <<>> \/ st.keyElements = <<>>
       THEN Step([st EXCEPT !.error = "Cannot regenerate outline"], ops,
                 storage, Ev("handleRegenerateOutline", "", "rejected", 0),
                 userOps + 1)
       ELSE /\ HasFree(ops)
            /\ Step([st EXCEPT !.isLoading = TRUE, !.error = "",
                               !.rawError = <<>>],
                    [ops EXCEPT ![Free(ops)] =
                       Op("handleRegenerateOutline", "outline", 0, st)],
                    storage,
                    Ev("handleRegenerateOutline", "outline", "start", 0),
                    userOps + 1)

\* the base outline answer (part_000 1407-1424)
ROOutlined(s) ==
  /\ InFlight(s, "handleRegenerateOutline", "outline")
  /\ \E resp \in OutlineResponses(ops[s].snap) :
       LET c == ops[s].snap
           validated == ValidateChapters(resp.data[1])
           next == NextPrompted(c.chapterPrompts, 0, Len(validated))
       IN IF resp.status # 200 THEN ROFail(s, resp)
          ELSE IF next >= 0
            THEN Step(st, [ops EXCEPT ![s].phase = "refine", ![s].i = next,
                                      ![s].acc = validated],
                      storage,
                      Ev("handleRegenerateOutline", "outline", "base", 0),
                      userOps)
            ELSE Step(ROCommit(st, c, validated), Done(s), saveProgress(c),
                      Ev("handleRegenerateOutline", "outline", "ok", 0),
                      userOps)

\* one per-chapter refinement answer (part_000 1427-1469): the entry of
\* the answer replaces the entry at idx, a failed request is skipped
RORefined(s) ==
  /\ InFlight(s, "handleRegenerateOutline", "refine")
  /\ \E resp \in OutlineResponses(ops[s].snap) :
       LET c == ops[s].snap
           idx == ops[s].i
           validated ==
             IF resp.status = 200 /\ idx < Len(resp.data[1])
               THEN [ops[s].acc EXCEPT ![idx + 1] = resp.data[1][idx + 1]]
               ELSE ops[s].acc
           next == NextPrompted(c.chapterPrompts, idx + 1, Len(validated))
       IN IF next >= 0
            THEN Step(st, [ops EXCEPT ![s].i = next, ![s].acc = validated],
                      storage,
                      Ev("handleRegenerateOutline", "refine", "chapter", idx),
                      userOps)
            ELSE Step(ROCommit(st, c, validated), Done(s), saveProgress(c),
                      Ev("handleRegenerateOutline", "outline", "ok", 0),
                      userOps)

\* the per-chapter buttons are rendered for chapters with a text
\* (part_000 2226-2228)
HasText(idx) == idx < Len(st.chapters) /\ ArrGet(st.expandedChapters, idx) # 0

\* handleExpandMore up to its await (part_000 1084-1094) behind its button
\* (part_000 2237-2240)
ExpandMore(idx) ==
  /\ Budget
  /\ HasText(idx)
  /\ st.chapterLoading = 0 - 1
  /\ HasFree(ops)
  /\ Step([st EXCEPT !.chapterLoading = idx, !.error = "", !.rawError = <<>>],
          [ops EXCEPT ![Free(ops)] = Op("handleExpandMore", "expand", idx, st)],
          storage, Ev("handleExpandMore", "expand", "start", idx), userOps + 1)

\* the /api/expand-chapter-more answer (part_000 1114-1132)
EMExpanded(s) ==
  /\ InFlight(s, "handleExpandMore", "expand")
  /\ \E g \in TextGens, cred \in BOOLEAN :
       LET c == ops[s].snap
           idx == ops[s].arg
           resp == ExpandChapterMore(
                     [existingDetails |-> ArrGet(c.expandedChapters, idx),
                      cred |-> cred], g)
       IN IF resp.status # 200
            THEN Step([st EXCEPT !.error = "Further expansion failed",
                                 !.rawError = <<>>, !.chapterLoading = 0 - 1],
                      Done(s), storage,
                      Ev("handleExpandMore", "expand", "fail", idx), userOps)
            ELSE Step([st EXCEPT
                         !.expandedChapters =
                            ArrSet(c.expandedChapters, idx, resp.data[1]),
                         !.expansionCounts =
                            ArrSet(c.expansionCounts, idx,
                                   ArrGet(c.expansionCounts, idx) + 1),
                         !.chapterLoading = 0 - 1],
                      Done(s), saveProgress(c),
                      Ev("handleExpandMore", "expand", "ok", idx), userOps)

\* handleRegenerateChapter up to its await (part_000 1135-1145) behind its
\* button (part_000 2244-2247)
RegenerateChapter(idx) ==
  /\ Budget
  /\ HasText(idx)
  /\ st.chapterLoading = 0 - 1
  /\ HasFree(ops)
  /\ Step([st EXCEPT !.chapterLoading = idx, !.error = "", !.rawError = <<>>],
          [ops EXCEPT ![Free(ops)] =
             Op("handleRegenerateChapter", "expand", idx, st)],
          storage, Ev("handleRegenerateChapter", "expand", "start", idx),
          userOps + 1)

RCFail(s) ==
  Step([st EXCEPT !.error = "Regeneration failed", !.rawError = <<>>,
                  !.chapterLoading = 0 - 1],
       Done(s), storage,
       Ev("handleRegenerateChapter", ops[s].phase, "fail", ops[s].arg),
       userOps)

\* the /api/expand-chapter answer in handleRegenerateChapter
\* (part_000 1164-1174)
RCExpanded(s) ==
  /\ InFlight(s, "handleRegenerateChapter", "expand")
  /\ \E g \in TextGens, cred \in BOOLEAN :
       LET c == ops[s].snap
           idx == ops[s].arg
           resp == ExpandChapter([keyElements |-> c.keyElements,
                                  cred |-> cred], g)
       IN IF resp.status # 200 THEN RCFail(s)
          ELSE Step([st EXCEPT
                       !.expandedChapters =
                          ArrSet(c.expandedChapters, idx, resp.data[1]),
                       !.expansionCounts = ArrSet(c.expansionCounts, idx, 0)],
                    [ops EXCEPT ![s].phase = "image"], storage,
                    Ev("handleRegenerateChapter", "expand", "text", idx),
                    userOps)

\* the image calls in handleRegenerateChapter are over (part_000 1176-1236)
RCImaged(s) ==
  /\ InFlight(s, "handleRegenerateChapter", "image")
  /\ \E outcome \in ImageOutcomes :
       LET c == ops[s].snap
       IN IF outcome = "throw" THEN RCFail(s)
          ELSE Step([st EXCEPT !.chapters = c.chapters,
                               !.chapterLoading = 0 - 1],
                    Done(s), saveProgress(c),
                    Ev("handleRegenerateChapter", "expand", "ok", ops[s].arg),
                    userOps)

RECURSIVE ClearFrom(_, _, _)
\* the loop of part_000 1511-1515 on a copy of an array
ClearFrom(a, i, len) ==
  IF i >= len THEN a ELSE ClearFrom(ArrSet(a, i, 0), i + 1, len)

\* handleRegenerateExpandedFromChapter(from), confirmed (part_000
\* 1499-1526), behind "Regen From" of chapter from - 1 (part_000 2250-2255)
RegenerateExpandedFrom(from) ==
  /\ Budget
  /\ from >= 1
  /\ HasText(from - 1)
  /\ from - 1 < Len(st.chapters) - 1
  /\ st.chapterLoading = 0 - 1
  /\ Step([st EXCEPT
             !.expandedChapters =
                ClearFrom(st.expandedChapters, from, Len(st.chapters)),
             !.expansionCounts =
                ClearFrom(st.expansionCounts, from, Len(st.chapters)),
             !.error = "", !.rawError = <<>>,
             !.currentChapterIndex = from, !.currentStep = 3],
          ops, saveProgress(st),
          Ev("handleRegenerateExpandedFromChapter", "", "ok", from),
          userOps + 1)

\* clearProgress (part_000 580-597) behind "Clear Progress" (part_000
\* 2017-2023): the draft stays
ClearProgress ==
  /\ Budget
  /\ Step([InitState EXCEPT !.draft = st.draft,
                            !.isLoading = st.isLoading,
                            !.chapterLoading = st.chapterLoading],
          ops, <<>>, Ev("clearProgress", "", "ok", 0), userOps + 1)

(***************************************************************************)
(* The frontend specification                                              *)
(***************************************************************************)
\* the request of the endpoint: with a condensed draft and key elements
\* or without them, with or without credentials
SrvReq(full, cred) ==
  [condensedDraft |-> IF full THEN <<1>> ELSE <<>>,
   keyElements |-> IF full THEN <<[characters |-> <<1>>]>> ELSE <<>>,
   cred |-> cred]

\* no pure function has been applied
FnIdle == [pc |-> "idle"]

SrvIdle == [pc |-> "idle", kind |-> "", req |-> SrvReq(FALSE, FALSE),
            routed |-> FALSE, story |-> <<>>,
            g1 |-> GenFailed, g2 |-> GenFailed,
            resp |-> Resp(0, <<>>, <<>>, 0)]

Init ==
  /\ st = InitState
  /\ ops = [s \in Slots |-> NoOp]
  /\ storage = <<>>
  /\ ev = Ev("mount", "", "ok", 0)
  /\ userOps = 0
  /\ overlaps = 0
  /\ gen = GenIdle
  /\ srv = SrvIdle
  /\ fn = FnIdle

ChapterIdx == 0..MaxIdx

Next ==
  \/ \E d \in Drafts : SetDraft(d)
  \/ Submit
  \/ Continue
  \/ RegenerateSummary
  \/ RegenerateOutline
  \/ ClearProgress
  \/ \E idx \in ChapterIdx :
       \/ idx <= MaxEditIdx /\ EditChapterPrompt(idx, 1)
       \/ SaveChapterPrompt(idx)
       \/ ExpandMore(idx)
       \/ RegenerateChapter(idx)
       \/ RegenerateExpandedFrom(idx)
  \/ \E s \in Slots :
       \/ SubmitHashed(s)
       \/ SubmitStyled(s)
       \/ \E g \in TextGens, cred \in BOOLEAN : PSSummarized(s, g, cred)
       \/ /\ InFlight(s, "processStep", "extract")
          /\ \E resp \in KeyElementResponses(ops[s].snap) :
               PSExtracted(s, resp)
       \/ /\ InFlight(s, "processStep", "outline")
          /\ \E resp \in OutlineResponses(ops[s].snap) : PSOutlined(s, resp)
       \/ \E g \in TextGens, cred \in BOOLEAN : PSExpanded(s, g, cred)
       \/ \E outcome \in ImageOutcomes : PSImaged(s, outcome)
       \/ RSSummarized(s)
       \/ RFAugmented(s)
       \/ RFOutlined(s)
       \/ ROOutlined(s)
       \/ RORefined(s)
       \/ EMExpanded(s)
       \/ RCExpanded(s)
       \/ RCImaged(s)

Spec == Init /\ [][Next]_vars

(***************************************************************************)
(* The pipeline without failures and without edits, for progress           *)
(***************************************************************************)
GoodTextGens == {g \in TextGens : g.ok}

\* the first draft is typed and submitted once
LiveUser ==
  \/ \E d \in Drafts : st.draft = <<>> /\ SetDraft(d)
  \/ userOps = 0 /\ Submit

\* the requests of handleSubmit and processStep are answered, each with
\* success
LiveAnswer ==
  \E s \in Slots :
    \/ SubmitHashed(s)
    \/ SubmitStyled(s)
    \/ \E g \in GoodTextGens : PSSummarized(s, g, TRUE)
    \/ /\ InFlight(s, "processStep", "extract")
       /\ \E resp \in {r \in KeyElementResponses(ops[s].snap) :
                         r.status = 200} : PSExtracted(s, resp)
    \/ /\ InFlight(s, "processStep", "outline")
       /\ \E resp \in {r \in OutlineResponses(ops[s].snap) :
                         r.status = 200} : PSOutlined(s, resp)
    \/ \E g \in GoodTextGens : PSExpanded(s, g, TRUE)
    \/ \E outcome \in ImageOutcomes \ {"throw"} : PSImaged(s, outcome)

LiveNext == LiveUser \/ LiveAnswer

\* every pending request is eventually answered
LiveSpec == Init /\ [][LiveNext]_vars /\ WF_vars(LiveAnswer)

(***************************************************************************)
(* generateWithModel on its own: one completion request per step           *)
(***************************************************************************)
GenErrors == {"api", "empty"}

GenFrame == UNCHANGED <<st, ops, storage, ev, userOps, overlaps, srv, fn>>

\* a caller invokes generateWithModel(prompt, m, client)
GenStart(m) ==
  /\ gen.pc \in {"idle", "returned", "error"}
  /\ gen' = [GenCall(m) EXCEPT
               !.prev = IF gen.pc = "returned" THEN <<GenKept(gen)>>
                                               ELSE gen.prev]
  /\ GenFrame

\* the request threw, or the completion was empty (server.ts 473-479)
GenAttemptFails(err) ==
  /\ gen.pc = "attempt"
  /\ gen' = GenCatch(gen, err)
  /\ GenFrame

\* the request gave a non-empty completion (server.ts 476-479)
GenAttemptReturns(text) ==
  /\ gen.pc = "attempt"
  /\ gen' = GenReturn(gen, text)
  /\ GenFrame

GenNext ==
  \/ \E m \in Models : GenStart(m)
  \/ \E err \in GenErrors : GenAttemptFails(err)
  \/ \E text \in Texts : GenAttemptReturns(text)

GenSpec == Init /\ [][GenNext]_vars

(***************************************************************************)
(* The two structured endpoints on their own: a request, then one          *)
(* generation per step                                                     *)
(***************************************************************************)
Decos == {"plain", "fenced", "prose"}
SrvLens == {MinChapters - 1, MinChapters, MaxChapters, MaxChapters + 1}
SrvBodies == {Junk, Obj, KE(<<1>>, TRUE), KE(<<0>>, TRUE), KE(<<1>>, FALSE),
              KE(<<1, 1>>, TRUE), Arr(<<1, 0, 1, 1, 1, 1>>)}
             \cup {Arr(Fill(n, 1)) : n \in SrvLens}
SrvGens == {GenFailed} \cup {GenText(Raw(d, j)) : d \in Decos, j \in SrvBodies}

SrvFrame == UNCHANGED <<st, ops, storage, ev, userOps, overlaps, gen, fn>>

SrvAnswer(kind, req, g1, g2, routed) ==
  Deliver(IF kind = "outline" THEN GenerateOutline(req, g1, g2)
                              ELSE ExtractKeyElements(req, g1, g2), routed)

\* a request arrives; one that fails validation is answered at once
SrvReceive(kind, full, cred, routed) ==
  /\ srv.pc \in {"idle", "answered"}
  /\ srv' = [SrvIdle EXCEPT
               !.kind = kind, !.req = SrvReq(full, cred), !.routed = routed,
               !.resp = SrvAnswer(kind, SrvReq(full, cred), GenFailed,
                                  GenFailed, routed),
               !.pc = IF full /\ cred THEN "first" ELSE "answered"]
  /\ SrvFrame

\* the first generateWithModel call is over with outcome g
SrvFirst(g) ==
  /\ srv.pc = "first"
  /\ srv' = [srv EXCEPT
               !.g1 = g,
               !.resp = SrvAnswer(srv.kind, srv.req, g, GenFailed, srv.routed),
               !.pc = IF g.ok /\ ~ParseFirst(srv.kind, cleanJsonResponse(g.raw)).ok
                        THEN "second" ELSE "answered"]
  /\ SrvFrame

\* the generateWithModel call with the stricter prompt is over with
\* outcome g
SrvSecond(g) ==
  /\ srv.pc = "second"
  /\ srv' = [srv EXCEPT
               !.g2 = g,
               !.resp = SrvAnswer(srv.kind, srv.req, srv.g1, g, srv.routed),
               !.pc = "answered"]
  /\ SrvFrame

SrvNext ==
  \/ \E kind \in {"outline", "extract"}, full \in BOOLEAN, cred \in BOOLEAN,
        routed \in BOOLEAN :
       SrvReceive(kind, full, cred, routed)
  \/ \E g \in SrvGens : SrvFirst(g)
  \/ \E g \in SrvGens : SrvSecond(g)

SrvSpec == Init /\ [][SrvNext]_vars

(***************************************************************************)
(* The generation endpoints with the credentials of the request and of the *)
(* environment.  A key is "none" (undefined), "" (empty), "SP" (white      *)
(* space only), the placeholder, or a key ("sk-live").                     *)
(***************************************************************************)
Placeholder == "sk-placeholder"
Keys == {"none", "", "SP", Placeholder, "sk-live"}
EnvKeys == {"none", "", Placeholder, "sk-live"}

\* !k of a string or undefined
Falsy(k) == k \in {"none", ""}

\* a key of the settings that is used (server.ts 407, 415)
Given(apiKey) == ~Falsy(apiKey) /\ apiKey # "SP" /\ apiKey # Placeholder

\* a validation that takes the placeholder of the environment for a key
validateApiKeyLax(apiKey, envKey) ==
  ~Given(apiKey) /\ Falsy(envKey)

\* validateApiKey (server.ts 413-422): TRUE when it returns the message
validateApiKey(apiKey, envKey) ==
  ~Given(apiKey) /\ (Falsy(envKey) \/ envKey = Placeholder)

\* the key of the client getOpenAIClient returns (server.ts 404-411)
getOpenAIClient(apiKey, envKey) ==
  IF Given(apiKey) THEN apiKey
  ELSE IF Falsy(envKey) THEN Placeholder ELSE envKey

\* the outcome of one images.generate call: an URL, a response without
\* URL, a rejection by the safety system, another error
ImageResults == {"url", "nourl", "safety", "other"}

\* the test of the catch (server.ts 997)
SafetyRejection(o) == o = "safety"

\* POST /api/generate-image-prompt (server.ts 922-961)
GenerateImagePrompt(req, g) ==
  IF ~req.titled THEN Resp(400, <<>>, <<>>, 0)
  ELSE IF ~req.cred THEN Resp(401, <<>>, <<>>, 0)
  ELSE IF ~g.ok THEN Resp(500, <<>>, <<>>, 1)
  ELSE Resp(200, <<g.text>>, <<>>, 1)

\* an image endpoint that asks again after every failure
GenerateImageAgain(req, o1, o2) ==
  IF ~req.imagePrompt THEN Resp(400, <<>>, <<>>, 0)
  ELSE IF ~req.cred THEN Resp(401, <<>>, <<>>, 0)
  ELSE IF o1 = "url" THEN Resp(200, <<"url">>, <<>>, 1)
  ELSE IF o2 = "url" THEN Resp(200, <<"url">>, <<>>, 2)
  ELSE Resp(200, <<"null">>, <<>>, 2)

\* POST /api/generate-image (server.ts 964-1041); gens counts the
\* images.generate calls, data is the imageUrl of the answer
GenerateImage(req, o1, o2) ==
  IF ~req.imagePrompt THEN Resp(400, <<>>, <<>>, 0)
  ELSE IF ~req.cred THEN Resp(401, <<>>, <<>>, 0)
  ELSE IF o1 = "url" THEN Resp(200, <<"url">>, <<>>, 1)
  ELSE IF ~SafetyRejection(o1) THEN Resp(500, <<>>, <<>>, 1)
  ELSE IF o2 = "url" THEN Resp(200, <<"url">>, <<>>, 2)
  ELSE Resp(200, <<"null">>, <<>>, 2)

ApiKinds == {"summarize", "extract", "outline", "expand", "more",
             "imagePrompt", "image"}

\* the body of a request: with the fields the endpoint requires or
\* without them
ApiReq(full, apiKey, envKey) ==
  [draft |-> IF full THEN <<1>> ELSE <<>>,
   condensedDraft |-> IF full THEN <<1>> ELSE <<>>,
   keyElements |-> IF full THEN <<[characters |-> <<1>>]>> ELSE <<>>,
   existingDetails |-> IF full THEN 1 ELSE 0,
   titled |-> full, imagePrompt |-> full,
   cred |-> ~validateApiKey(apiKey, envKey)]

ApiIdle ==
  [pc |-> "idle", kind |-> "", full |-> FALSE, apiKey |-> "none",
   envKey |-> "none", client |-> "", o1 |-> "", o2 |-> "", prompts |-> <<>>,
   resp |-> Resp(0, <<>>, <<>>, 0)]

\* the answer of the endpoint to the request held in srv, the generations
\* having the outcomes g (free text), g1, g2 (structured), o1, o2 (image)
ApiAnswer(a, g, g1, g2, o1, o2) ==
  LET req == ApiReq(a.full, a.apiKey, a.envKey)
  IN CASE a.kind = "summarize" -> SummarizeDraft(req, g)
       [] a.kind = "extract" -> ExtractKeyElements(req, g1, g2)
       [] a.kind = "outline" -> GenerateOutline(req, g1, g2)
       [] a.kind = "expand" -> ExpandChapter(req, g)
       [] a.kind = "more" -> ExpandChapterMore(req, g)
       [] a.kind = "imagePrompt" -> GenerateImagePrompt(req, g)
       [] a.kind = "image" -> GenerateImage(req, o1, o2)

NoText == [ok |-> FALSE, text |-> 0]

ApiFrame == UNCHANGED <<st, ops, storage, ev, userOps, overlaps, gen, fn>>

ApiInit ==
  /\ st = InitState
  /\ ops = [s \in Slots |-> NoOp]
  /\ storage = <<>>
  /\ ev = Ev("mount", "", "ok", 0)
  /\ userOps = 0
  /\ overlaps = 0
  /\ gen = GenIdle
  /\ fn = FnIdle
  /\ srv = ApiIdle

\* a request arrives; one without its fields or without a credential is
\* answered before a client exists
ApiReceive(kind, full, apiKey, envKey) ==
  /\ srv.pc \in {"idle", "answered"}
  /\ LET a == [ApiIdle EXCEPT !.kind = kind, !.full = full,
                              !.apiKey = apiKey, !.envKey = envKey]
         go == full /\ ~validateApiKey(apiKey, envKey)
     IN srv' = [a EXCEPT
                  !.resp = ApiAnswer(a, NoText, GenFailed, GenFailed, "", ""),
                  !.client = IF go THEN getOpenAIClient(apiKey, envKey) ELSE "",
                  !.pc = IF ~go THEN "answered"
                         ELSE IF kind = "image" THEN "image"
                         ELSE IF kind \in {"extract", "outline"} THEN "structured"
                         ELSE "text"]
  /\ ApiFrame

\* the generateWithModel call of a free-text endpoint is over
ApiText(g) ==
  /\ srv.pc = "text"
  /\ srv' = [srv EXCEPT
               !.resp = ApiAnswer(srv, g, GenFailed, GenFailed, "", ""),
               !.pc = "answered"]
  /\ ApiFrame

\* the generateWithModel calls of a structured endpoint are over
ApiStructured(g1, g2) ==
  /\ srv.pc = "structured"
  /\ srv' = [srv EXCEPT
               !.resp = ApiAnswer(srv, NoText, g1, g2, "", ""),
               !.pc = "answered"]
  /\ ApiFrame

\* the images.generate call with the prompt of the request is over
ApiImageFirst(o) ==
  /\ srv.pc = "image"
  /\ srv' = [srv EXCEPT
               !.o1 = o, !.prompts = <<"given">>,
               !.resp = ApiAnswer(srv, NoText, GenFailed, GenFailed, o, ""),
               !.pc = IF SafetyRejection(o) THEN "retry" ELSE "answered"]
  /\ ApiFrame

\* the images.generate call with the safe prompt (server.ts 1001-1011) is
\* over
ApiImageRetry(o) ==
  /\ srv.pc = "retry"
  /\ srv' = [srv EXCEPT
               !.o2 = o, !.prompts = @ \o <<"safe">>,
               !.resp = ApiAnswer(srv, NoText, GenFailed, GenFailed, srv.o1, o),
               !.pc = "answered"]
  /\ ApiFrame

ApiNext ==
  \/ \E kind \in ApiKinds, full \in BOOLEAN, apiKey \in Keys,
        envKey \in EnvKeys : ApiReceive(kind, full, apiKey, envKey)
  \/ \E g \in TextGens : ApiText(g)
  \/ \E g1 \in KeyElementGens \cup OutlineGens,
        g2 \in KeyElementGens \cup OutlineGens : ApiStructured(g1, g2)
  \/ \E o \in ImageResults : ApiImageFirst(o)
  \/ \E o \in ImageResults : ApiImageRetry(o)

ApiSpec == ApiInit /\ [][ApiNext]_vars

(***************************************************************************)
(* The state store of the server: /api/save-state and /api/load-state over *)
(* the files of the working directory.  A file is <<>> (absent) or         *)
(* <<text>>; a text is the JSON text of a value or text that is not JSON.  *)
(***************************************************************************)
\* path.join(process.cwd(), './dist/story.json') (server.ts 1048)
SavePath == "dist/story.json"
\* path.join(process.cwd(), 'story.json') (server.ts 1068)
LoadPath == "story.json"
StorePaths == {SavePath, LoadPath}

\* JSON.stringify(state, null, 2) and JSON.parse on its texts
JsonStringify(v) == [k |-> "json", v |-> <<v>>]
NotJson == [k |-> "junk", v |-> <<>>]
JsonParseText(t) == [ok |-> t.k = "json", value |-> t.v]

\* states a client saves: nothing done, a summary, key elements, an
\* outline with nested chapters, expanded chapters
StoreStates ==
  LET s1 == [InitState EXCEPT !.draft = <<1>>, !.condensedDraft = <<1>>,
                              !.currentStep = 1]
      s2 == [s1 EXCEPT !.keyElements = <<[characters |-> <<1>>]>>,
                       !.currentStep = 2]
      s3 == [s2 EXCEPT !.chapters = Fill(MinChapters, 1),
                       !.expandedChapters = Fill(MinChapters, 0),
                       !.expansionCounts = Fill(MinChapters, 0),
                       !.chapterPrompts = Fill(MinChapters, 0),
                       !.currentStep = 3]
      s4 == [s3 EXCEPT !.expandedChapters = ArrSet(s3.expandedChapters, 0, 1),
                       !.currentChapterIndex = 1]
  IN {Blob(c) : c \in {InitState, s1, s2, s3, s4}}

StoreResp(status, state) == [status |-> status, state |-> state]

StoreIdle ==
  [pc |-> "idle", files |-> [p \in StorePaths |-> <<>>], saved |-> <<>>,
   resp |-> StoreResp(0, <<>>)]

\* the working directory the server starts in: dist/story.json is absent;
\* story.json, which the server never writes, is absent or holds any text
StoreInit ==
  /\ st = InitState
  /\ ops = [s \in Slots |-> NoOp]
  /\ storage = <<>>
  /\ ev = Ev("mount", "", "ok", 0)
  /\ userOps = 0
  /\ overlaps = 0
  /\ gen = GenIdle
  /\ fn = FnIdle
  /\ \E t \in {<<>>, <<NotJson>>} \cup {<<JsonStringify(v)>> : v \in StoreStates} :
       srv = [StoreIdle EXCEPT !.files[LoadPath] = t]

StoreFrame == UNCHANGED <<st, ops, storage, ev, userOps, overlaps, gen, fn>>

\* GET /api/load-state (server.ts 1066-1083): readFile and JSON.parse throw
\* into the catch, which answers 500
LoadState ==
  /\ srv' = [srv EXCEPT
               !.pc = "loaded",
               !.resp =
                 IF srv.files[LoadPath] = <<>> THEN StoreResp(500, <<>>)
                 ELSE IF ~JsonParseText(srv.files[LoadPath][1]).ok
                   THEN StoreResp(500, <<>>)
                 ELSE StoreResp(200, JsonParseText(srv.files[LoadPath][1]).value)]
  /\ StoreFrame

\* POST /api/save-state (server.ts 1044-1063) with body state; written says
\* whether fs.writeFile succeeded (it fails without a dist directory).
\* saved is the state of the last save that answered 200.
SaveState(state, written) ==
  /\ srv' = [srv EXCEPT
               !.pc = "saved",
               !.files[SavePath] =
                  IF written THEN <<JsonStringify(state)>> ELSE @,
               !.saved = IF written THEN <<state>> ELSE <<>>,
               !.resp = StoreResp(IF written THEN 200 ELSE 500, <<>>)]
  /\ StoreFrame

StoreNext ==
  \/ \E state \in StoreStates, written \in BOOLEAN : SaveState(state, written)
  \/ LoadState

StoreSpec == StoreInit /\ [][StoreNext]_vars

(***************************************************************************)
(* previousContext of /api/expand-chapter (server.ts 788-802), by length.  *)
(* A previous chapter is the number of characters of its title, summary,   *)
(* key events and timeline together.                                       *)
(***************************************************************************)
RECURSIVE EntriesLen(_)
\* the characters forEach appends (server.ts 792-799)
EntriesLen(previousChapters) ==
  IF previousChapters = <<>> THEN 0
  ELSE EntryFrame + Head(previousChapters) + EntriesLen(Tail(previousChapters))

\* the length of previousContext; previousChapters is <<>> when the request
\* has none and <<chapters>> otherwise
previousContext(chapterIndex, previousChapters) ==
  IF chapterIndex > 0 /\ previousChapters # <<>>
    THEN Min(DigestHeader + EntriesLen(previousChapters[1]), DigestCap)
    ELSE 0

EntrySizes == {100, 2500}
RECURSIVE SeqsUpTo(_, _)
SeqsUpTo(S, n) ==
  IF n = 0 THEN {<<>>}
  ELSE SeqsUpTo(S, n - 1)
         \cup {Append(q, x) : q \in {r \in SeqsUpTo(S, n - 1) : Len(r) = n - 1},
                              x \in S}

DigestFrame == UNCHANGED <<st, ops, storage, ev, userOps, overlaps, gen, srv>>

\* a request: the chapter index and the previous chapters it carries (the
\* client sends chapters.slice(0, index), part_000 896; the server takes
\* what it gets)
DigestInit ==
  /\ st = InitState
  /\ ops = [s \in Slots |-> NoOp]
  /\ storage = <<>>
  /\ ev = Ev("mount", "", "ok", 0)
  /\ userOps = 0
  /\ overlaps = 0
  /\ gen = GenIdle
  /\ srv = SrvIdle
  /\ fn \in {[pc |-> "input", chapterIndex |-> i, previousChapters |-> p,
              digest |-> 0] :
               i \in 0..MaxPrev,
               p \in {<<>>} \cup {<<q>> : q \in SeqsUpTo(EntrySizes, MaxPrev)}}

DigestBuild ==
  /\ fn.pc = "input"
  /\ fn' = [fn EXCEPT !.pc = "built",
                      !.digest = previousContext(fn.chapterIndex,
                                                 fn.previousChapters)]
  /\ DigestFrame

DigestNext == DigestBuild

DigestSpec == DigestInit /\ [][DigestNext]_vars

(***************************************************************************)
(* chunkText on texts.  A text is a sequence of characters; "SP" is the    *)
(* space and "NL" the line feed, "e'" a letter of two UTF-8 bytes.         *)
(***************************************************************************)
Terminators == {".", "!", "?"}
Whitespace == {"SP", "NL"}

\* TextEncoder.encode(c).length of one character
CharBytes(c) == IF c = "e'" THEN 2 ELSE 1

RECURSIVE ByteLen(_)
\* encoder.encode(text).length (part_000 243)
ByteLen(text) ==
  IF text = <<>> THEN 0 ELSE CharBytes(Head(text)) + ByteLen(Tail(text))

\* the length of the longest run from position i of characters that are
\* (term) or are not (~term) sentence terminators
RunLen(text, i, term) ==
  CHOOSE n \in 0..(Len(text) - i + 1) :
    /\ \A k \in 0..(n - 1) : (text[i + k] \in Terminators) = term
    /\ i + n > Len(text) \/ (text[i + n] \in Terminators) # term

RECURSIVE MatchSentences(_, _)
\* text.match(/[^.!?]+[.!?]+/gs) from position i: a sentence is a greedy
\* run of non-terminators followed by a greedy run of terminators;
\* terminators in front of a sentence and a last run without terminator
\* match nothing
MatchSentences(text, i) ==
  IF i > Len(text) THEN <<>>
  ELSE IF text[i] \in Terminators THEN MatchSentences(text, i + 1)
  ELSE LET body == RunLen(text, i, FALSE)
           marks == RunLen(text, i + body, TRUE)
       IN IF marks = 0 THEN <<>>
          ELSE <<SubSeq(text, i, i + body + marks - 1)>>
                 \o MatchSentences(text, i + body + marks)

\* text.match(/[^.!?]+[.!?]+/gs) || [text]  (part_000 240, server.ts 427)
SentencesOf(text) ==
  IF MatchSentences(text, 1) = <<>> THEN <<text>> ELSE MatchSentences(text, 1)

\* String.prototype.trim: the text between its first and its last
\* character that is not whitespace
Trim(text) ==
  LET ink == {i \in 1..Len(text) : text[i] \notin Whitespace}
  IN IF ink = {} THEN <<>>
     ELSE SubSeq(text, CHOOSE i \in ink : \A j \in ink : i <= j,
                       CHOOSE i \in ink : \A j \in ink : i >= j)

\* text.split(/\s+/).length: one more than the runs of whitespace
SplitCount(text) ==
  1 + Cardinality({i \in 1..Len(text) :
                     /\ text[i] \in Whitespace
                     /\ i = 1 \/ text[i - 1] \notin Whitespace})

RECURSIVE FrontendLoop(_, _, _, _, _)
\* the for loop and the final push of the frontend chunkText
\* (part_000 242-259)
FrontendLoop(sents, maxBytes, currentChunk, currentBytes, chunks) ==
  IF sents = <<>>
    THEN IF currentChunk # <<>> THEN Append(chunks, Trim(currentChunk))
         ELSE chunks
    ELSE LET sentence == Head(sents)
             sentenceBytes == ByteLen(sentence)
         IN IF currentBytes + sentenceBytes > maxBytes
              THEN FrontendLoop(Tail(sents), maxBytes, sentence, sentenceBytes,
                     IF currentChunk # <<>>
                       THEN Append(chunks, Trim(currentChunk)) ELSE chunks)
              ELSE FrontendLoop(Tail(sents), maxBytes,
                     currentChunk \o <<"SP">> \o sentence,
                     currentBytes + sentenceBytes, chunks)

\* chunkText(text, maxBytes) of the frontend (part_000 235-262)
chunkTextFrontend(text, maxBytes) ==
  FrontendLoop(SentencesOf(text), maxBytes, <<>>, 0, <<>>)

RECURSIVE BackendLoop(_, _, _, _)
\* the for loop and the final push of the backend chunkText
\* (server.ts 432-447)
BackendLoop(sents, maxWords, currentChunk, chunks) ==
  IF sents = <<>>
    THEN IF currentChunk # <<>> THEN Append(chunks, Trim(currentChunk))
         ELSE chunks
    ELSE LET sentence == Head(sents)
             sentenceWords == SplitCount(sentence)
         IN IF SplitCount(currentChunk) + sentenceWords > maxWords
              THEN BackendLoop(Tail(sents), maxWords, sentence,
                     IF currentChunk # <<>>
                       THEN Append(chunks, Trim(currentChunk)) ELSE chunks)
              ELSE BackendLoop(Tail(sents), maxWords,
                     currentChunk \o <<"SP">> \o sentence, chunks)

\* chunkText(text, maxWords) of the backend (server.ts 426-452)
chunkTextBackend(text, maxWords) ==
  BackendLoop(SentencesOf(text), maxWords, <<>>, <<>>)

\* the texts and budgets chunkText is applied to
ChunkChars == {"a", "e'", ".", "SP"}
ChunkTexts == UNION {[1..n -> ChunkChars] : n \in 0..MaxChars}
ChunkSizes == {2, MaxChars}

ChunkFrame == UNCHANGED <<st, ops, storage, ev, userOps, overlaps, gen, srv>>

\* a text and a budget to chunk
ChunkInit ==
  /\ st = InitState
  /\ ops = [s \in Slots |-> NoOp]
  /\ storage = <<>>
  /\ ev = Ev("mount", "", "ok", 0)
  /\ userOps = 0
  /\ overlaps = 0
  /\ gen = GenIdle
  /\ srv = SrvIdle
  /\ fn \in {[pc |-> "input", side |-> "", text |-> t, max |-> m,
              chunks |-> <<>>] : t \in ChunkTexts, m \in ChunkSizes}

\* the frontend chunks the text by bytes
ChunkFrontend ==
  /\ fn.pc = "input"
  /\ fn' = [fn EXCEPT !.pc = "chunked", !.side = "frontend",
                      !.chunks = chunkTextFrontend(fn.text, fn.max)]
  /\ ChunkFrame

\* the backend chunks the text by words
ChunkBackend ==
  /\ fn.pc = "input"
  /\ fn' = [fn EXCEPT !.pc = "chunked", !.side = "backend",
                      !.chunks = chunkTextBackend(fn.text, fn.max)]
  /\ ChunkFrame

ChunkNext == ChunkFrontend \/ ChunkBackend

ChunkSpec == ChunkInit /\ [][ChunkNext]_vars

(***************************************************************************)
(* cleanJsonResponse and JSON.parse on texts.  "DQ" is the double quote,   *)
(* "BT" the backtick; the JSON of the model has the digit 1, strings       *)
(* without escapes, arrays and objects.                                    *)
(***************************************************************************)
\* the number of whitespace characters from position i on (\s*)
SpaceRun(text, i) ==
  CHOOSE n \in 0..(Len(text) - i + 1) :
    /\ \A k \in 0..(n - 1) : text[i + k] \in Whitespace
    /\ i + n > Len(text) \/ text[i + n] \notin Whitespace

StartsWith(text, pre) ==
  Len(text) >= Len(pre) /\ SubSeq(text, 1, Len(pre)) = pre
EndsWith(text, suf) ==
  Len(text) >= Len(suf)
    /\ SubSeq(text, Len(text) - Len(suf) + 1, Len(text)) = suf

JsonTag == <<"BT", "BT", "BT", "j", "s", "o", "n">>
Fence == <<"BT", "BT", "BT">>

\* .replace(/^FENCEjson\s*\n?/, '') with FENCE the three backticks
\* (server.ts 456)
StripOpenFence(text) ==
  IF StartsWith(text, JsonTag)
    THEN SubSeq(text, Len(JsonTag) + 1 + SpaceRun(text, Len(JsonTag) + 1),
                Len(text))
    ELSE text

\* .replace(/\n?FENCE$/, '')  (server.ts 457): $ is the end of the text
StripCloseFence(text) ==
  IF EndsWith(text, <<"NL">> \o Fence)
    THEN SubSeq(text, 1, Len(text) - Len(Fence) - 1)
  ELSE IF EndsWith(text, Fence)
    THEN SubSeq(text, 1, Len(text) - Len(Fence))
  ELSE text

\* .replace(/^\s*[\[\{]/, match => match.trim())  (server.ts 458)
TrimOpenBracket(text) ==
  IF SpaceRun(text, 1) < Len(text)
       /\ text[SpaceRun(text, 1) + 1] \in {"[", "{"}
    THEN SubSeq(text, SpaceRun(text, 1) + 1, Len(text))
    ELSE text

RECURSIVE DropTrailingCommas(_, _)
\* .replace(/,\s*([\]\}])/g, '$1') from position i  (server.ts 459)
DropTrailingCommas(text, i) ==
  IF i > Len(text) THEN <<>>
  ELSE LET close == i + 1 + SpaceRun(text, i + 1)
       IN IF text[i] = "," /\ close <= Len(text) /\ text[close] \in {"]", "}"}
            THEN <<text[close]>> \o DropTrailingCommas(text, close + 1)
            ELSE <<text[i]>> \o DropTrailingCommas(text, i + 1)

\* cleanJsonResponse(text)  (server.ts 454-460)
cleanJsonText(text) ==
  DropTrailingCommas(TrimOpenBracket(StripCloseFence(StripOpenFence(text))), 1)

\* JSON.parse: the result of parsing one value is ok, the value in
\* canonical form (its text without the whitespace between tokens) and the
\* position after it
ParseFail == [ok |-> FALSE, canon |-> <<>>, next |-> 0]
Parsed(canon, next) == [ok |-> TRUE, canon |-> canon, next |-> next]
SkipSpace(text, i) == i + SpaceRun(text, i)

\* a string literal starting with the quote at position i
ParseString(text, i) ==
  LET ends == {k \in (i + 1)..Len(text) : text[k] = "DQ"}
  IN IF ends = {} THEN ParseFail
     ELSE LET k == CHOOSE e \in ends : \A f \in ends : e <= f
          IN IF \E m \in (i + 1)..(k - 1) : text[m] = "NL" THEN ParseFail
             ELSE Parsed(SubSeq(text, i, k), k + 1)

RECURSIVE ParseValue(_, _)
RECURSIVE ParseElements(_, _, _)
RECURSIVE ParseMembers(_, _, _)

\* value: number, string, array or object, after optional whitespace
ParseValue(text, i) ==
  LET j == SkipSpace(text, i)
  IN IF j > Len(text) THEN ParseFail
     ELSE IF text[j] = "1" THEN Parsed(<<"1">>, j + 1)
     ELSE IF text[j] = "DQ" THEN ParseString(text, j)
     ELSE IF text[j] = "["
       THEN LET k == SkipSpace(text, j + 1)
            IN IF k <= Len(text) /\ text[k] = "]"
                 THEN Parsed(<<"[", "]">>, k + 1)
                 ELSE ParseElements(text, j + 1, <<"[">>)
     ELSE IF text[j] = "{"
       THEN LET k == SkipSpace(text, j + 1)
            IN IF k <= Len(text) /\ text[k] = "}"
                 THEN Parsed(<<"{", "}">>, k + 1)
                 ELSE ParseMembers(text, j + 1, <<"{">>)
     ELSE ParseFail

\* the elements of an array from position i, acc the canonical form so far
ParseElements(text, i, acc) ==
  LET v == ParseValue(text, i)
      k == SkipSpace(text, v.next)
  IN IF ~v.ok \/ k > Len(text) THEN ParseFail
     ELSE IF text[k] = ","
       THEN ParseElements(text, k + 1, acc \o v.canon \o <<",">>)
     ELSE IF text[k] = "]" THEN Parsed(acc \o v.canon \o <<"]">>, k + 1)
     ELSE ParseFail

\* the members of an object from position i
ParseMembers(text, i, acc) ==
  LET j == SkipSpace(text, i)
      key == IF j <= Len(text) /\ text[j] = "DQ"
               THEN ParseString(text, j) ELSE ParseFail
      c == SkipSpace(text, key.next)
      v == IF key.ok /\ c <= Len(text) /\ text[c] = ":"
             THEN ParseValue(text, c + 1) ELSE ParseFail
      k == SkipSpace(text, v.next)
  IN IF ~v.ok \/ k > Len(text) THEN ParseFail
     ELSE IF text[k] = ","
       THEN ParseMembers(text, k + 1,
                         acc \o key.canon \o <<":">> \o v.canon \o <<",">>)
     ELSE IF text[k] = "}"
       THEN Parsed(acc \o key.canon \o <<":">> \o v.canon \o <<"}">>, k + 1)
     ELSE ParseFail

\* JSON.parse(text): the value, or a SyntaxError
JsonParse(text) ==
  LET v == ParseValue(text, 1)
  IN IF v.ok /\ SkipSpace(text, v.next) > Len(text)
       THEN [ok |-> TRUE, value |-> v.canon]
       ELSE [ok |-> FALSE, value |-> <<>>]

\* the valid JSON texts cleanJsonResponse is applied to
JsonTexts ==
  {<<"1">>,
   <<"DQ", "a", "DQ">>,
   <<"DQ", "a", ",", "]", "DQ">>,
   <<"[", "]">>,
   <<"{", "}">>,
   <<"[", "1", "]">>,
   <<"[", "1", ",", "SP", "1", "]">>,
   <<"SP", "[", "SP", "1", "SP", "]", "NL">>,
   <<"[", "DQ", "a", ",", "]", "DQ", "]">>,
   <<"{", "DQ", "a", "DQ", ":", "1", "}">>,
   <<"{", "DQ", "a", "DQ", ":", "DQ", "a", ",", "SP", "}", "DQ", "}">>,
   <<"[", "[", "1", "]", ",", "{", "DQ", "a", "DQ", ":", "1", "}", "]">>}

\* j as the model returns it: bare, or in a fenced code block with or
\* without the language tag and with or without a line feed after the
\* closing fence
Fenced(j, fence, trailing) ==
  IF fence = "none" THEN j
  ELSE (IF fence = "json" THEN JsonTag ELSE Fence) \o <<"NL">> \o j
         \o <<"NL">> \o Fence \o (IF trailing THEN <<"NL">> ELSE <<>>)

CleanFrame == UNCHANGED <<st, ops, storage, ev, userOps, overlaps, gen, srv>>

\* a completion to clean
CleanInit ==
  /\ st = InitState
  /\ ops = [s \in Slots |-> NoOp]
  /\ storage = <<>>
  /\ ev = Ev("mount", "", "ok", 0)
  /\ userOps = 0
  /\ overlaps = 0
  /\ gen = GenIdle
  /\ srv = SrvIdle
  /\ fn \in {[pc |-> "raw", json |-> j, fence |-> f, trailing |-> t,
              text |-> Fenced(j, f, t), parsed |-> JsonParse(<<>>)] :
               j \in JsonTexts, f \in {"none", "json", "bare"},
               t \in BOOLEAN}
  /\ fn.fence = "none" => ~fn.trailing

\* const cleanedText = cleanJsonResponse(outlineText)  (server.ts 666)
CleanApply ==
  /\ fn.pc = "raw"
  /\ fn' = [fn EXCEPT !.pc = "cleaned", !.text = cleanJsonText(fn.text)]
  /\ CleanFrame

\* JSON.parse(cleanedText)  (server.ts 669)
CleanParse ==
  /\ fn.pc = "cleaned"
  /\ fn' = [fn EXCEPT !.pc = "parsed", !.parsed = JsonParse(fn.text)]
  /\ CleanFrame

CleanNext == CleanApply \/ CleanParse

CleanSpec == CleanInit /\ [][CleanNext]_vars

(***************************************************************************)
(* Properties                                                              *)
(***************************************************************************)
PSReturned(e, result) == e.op = "processStep" /\ e.result = result

\* C1: when the outline stage of processStep fails because both the first
\* response and the stricter-prompt retry were unparseable or shape-invalid,
\* the failing return leaves currentStep, currentChapterIndex and chapters
\* exactly as they were.
C1_OutlineFailureKeepsPointer ==
  [][(PSReturned(ev', "contract") /\ ev'.phase = "outline")
       => /\ st'.currentStep = st.currentStep
          /\ st'.currentChapterIndex = st.currentChapterIndex
          /\ st'.chapters = st.chapters]_vars

\* the outline stage has failed on a contract failure at step 2
C1_Witness ==
  /\ PSReturned(ev, "contract") /\ ev.phase = "outline"
  /\ st.currentStep = 2
  /\ st.rawError # <<>>
  /\ st.error = "Step failed"

\* C2: when every completion request fails, one generateWithModel call has
\* made exactly 3 requests with the requested model and exactly 3 with the
\* fallback model when it raises the error (3 in total when the requested
\* model is the fallback model).
C2_ThreeAttemptsPerModel ==
  gen.pc = "error"
    => /\ gen.primary = 3
       /\ gen.fallback = IF gen.requested = FallbackModel THEN 0 ELSE 3

\* C3: a request with the fallback model is made only after every request
\* the retry budget allows with the requested model has failed; the
\* fallback cycle is entered at most once, and never when the requested
\* model is the fallback model.
C3_FallbackAfterExhaustion ==
  /\ (gen.isFallback \/ gen.fallback > 0)
       => /\ gen.failed = gen.primary
          /\ gen.primary = DefaultRetries + 1
          /\ gen.requested # FallbackModel
  /\ gen.cycles <= 1
  /\ gen.requested = FallbackModel => gen.cycles = 0 /\ gen.fallback = 0
  /\ (gen.pc = "error" /\ gen.requested = FallbackModel)
       => gen.failed = gen.primary

\* a call that was answered by the fallback model
C3_Witness ==
  /\ gen.pc = "returned"
  /\ gen.isFallback
  /\ gen.fallback > 0
  /\ gen.model = FallbackModel

\* the raw text an error of a structured endpoint carries, answered or not
ErrorRaw(r) == r.rawResponse \o r.thrownRaw

FirstFailsContract ==
  /\ srv.req.condensedDraft # <<>>
  /\ srv.req.cred
  /\ srv.g1.ok
  /\ ~ParseFirst(srv.kind, cleanJsonResponse(srv.g1.raw)).ok

SecondFailsContract ==
  /\ srv.g2.ok
  /\ ~ParseRetry(srv.kind, cleanJsonResponse(srv.g2.raw)).ok

\* C4: in extract-key-elements and generate-outline a first response that
\* fails parsing or shape validation is followed by exactly one more
\* generation; when that one fails parsing or validation too, the stage
\* ends in an error that carries the cleaned text of the second response,
\* and no third generation is made.
C4_OneStricterRetry ==
  /\ srv.resp.gens <= 2
  /\ (srv.pc = "answered" /\ FirstFailsContract)
       => /\ srv.resp.gens = 2
          /\ SecondFailsContract
               => /\ srv.resp.status # 200
                  /\ ErrorRaw(srv.resp) = <<cleanJsonResponse(srv.g2.raw)>>

\* both responses of an outline request failed the contract, the second
\* one inside a code fence
C4_Witness ==
  /\ srv.pc = "answered"
  /\ srv.kind = "outline"
  /\ FirstFailsContract
  /\ SecondFailsContract
  /\ srv.g2.raw.deco = "fenced"
  /\ srv.resp.rawResponse = <<[srv.g2.raw EXCEPT !.deco = "plain"]>>

MutatingKinds ==
  {"processStep", "regenerateSummary", "regenerateFromChapterPrompt",
   "handleRegenerateOutline", "handleExpandMore", "handleRegenerateChapter"}

\* C5: at most one of processStep, regenerateSummary,
\* regenerateFromChapterPrompt, handleRegenerateOutline, handleExpandMore
\* and handleRegenerateChapter is between its start and its completion.
C5_OneOperationInFlight ==
  Cardinality({s \in Slots : ops[s].kind \in MutatingKinds}) <= 1

\* C6: after a successful stage transition of processStep the blob that
\* transition saved holds the new pointer and the artifact just produced.
C6_SavedBlobIsCurrent ==
  PSReturned(ev, "ok")
    => /\ storage # <<>>
       /\ storage[1].currentStep = st.currentStep
       /\ storage[1].currentChapterIndex = st.currentChapterIndex
       /\ storage[1].condensedDraft = st.condensedDraft
       /\ storage[1].keyElements = st.keyElements
       /\ storage[1].chapters = st.chapters
       /\ storage[1].expandedChapters = st.expandedChapters

\* C7: a successful processStep moves the pointer forward by exactly one
\* position: currentStep by one up to 3, then currentChapterIndex by one,
\* never past chapters.length.
C7_PointerAdvancesByOne ==
  [][PSReturned(ev', "ok")
       => \/ /\ st.currentStep < 3
             /\ st'.currentStep = st.currentStep + 1
             /\ st'.currentChapterIndex \in {0, st.currentChapterIndex}
          \/ /\ st.currentStep = 3
             /\ st'.currentStep = 3
             /\ st'.currentChapterIndex = st.currentChapterIndex + 1
             /\ st'.currentChapterIndex <= Len(st'.chapters)]_vars

Submitted == \E s \in Slots : ops[s].kind = "handleSubmit"

AllExpanded ==
  /\ Complete(st)
  /\ Len(st.chapters) >= MinChapters
  /\ \A i \in 0..(Len(st.chapters) - 1) : ArrGet(st.expandedChapters, i) # 0

\* C8: when every request succeeds and the user edits nothing, a submitted
\* draft leads to the complete state (currentStep = 3, currentChapterIndex
\* = chapters.length) with a text for every chapter.
C8_PipelineCompletes == Submitted ~> AllExpanded

\* the pipeline ran to the end and nothing is in flight
C8_Witness == AllExpanded /\ Busy(ops) = 0 /\ ~st.isLoading

\* C9: when processStep starts expanding chapter i, every chapter before
\* i has a text.
C9_EarlierChaptersExpanded ==
  \A s \in Slots :
    InFlight(s, "processStep", "expand")
      => \A j \in 0..(ops[s].arg - 1) :
           ArrGet(ops[s].snap.expandedChapters, j) # 0

\* C10: a successful regenerateFromChapterPrompt(k) leaves the outline
\* entry of every chapter before k as it was.
C10_EarlierEntriesKept ==
  [][(ev'.op = "regenerateFromChapterPrompt" /\ ev'.result = "ok")
       => \A j \in 0..(ev'.arg - 1) :
            j < Len(st.chapters)
              => /\ j < Len(st'.chapters)
                 /\ st'.chapters[j + 1] = st.chapters[j + 1]]_vars

\* C11: a successful regenerateFromChapterPrompt(k) leaves the text, the
\* expansion count and the prompt of every chapter before k as they were,
\* leaves every chapter from k on without text and with count 0, and leaves
\* the prompt of every chapter that existed before as it was.
C11_RegenerationFrame ==
  [][(ev'.op = "regenerateFromChapterPrompt" /\ ev'.result = "ok")
       => /\ \A i \in 0..(Len(st.chapters) - 1) :
               /\ ArrGet(st'.chapterPrompts, i) = ArrGet(st.chapterPrompts, i)
               /\ i < ev'.arg
                    => /\ ArrGet(st'.expandedChapters, i)
                            = ArrGet(st.expandedChapters, i)
                       /\ ArrGet(st'.expansionCounts, i)
                            = ArrGet(st.expansionCounts, i)
          /\ \A i \in ev'.arg..(Len(st'.chapters) - 1) :
               /\ ArrGet(st'.expandedChapters, i) = 0
               /\ ArrGet(st'.expansionCounts, i) = 0]_vars

OutlineKeepers ==
  {"regenerateFromChapterPrompt", "handleRegenerateOutline",
   "handleRegenerateChapter", "handleExpandMore"}

\* C12: once the pipeline is outlined (currentStep = 3 with chapters), a
\* step of regenerateFromChapterPrompt, handleRegenerateOutline,
\* handleRegenerateChapter or handleExpandMore leaves chapters.length as it
\* was.
C12_ChapterCountFixed ==
  [][(st.currentStep = 3 /\ Len(st.chapters) > 0 /\ ev'.op \in OutlineKeepers)
       => Len(st'.chapters) = Len(st.chapters)]_vars

\* the content of a prose text: text t is t paragraphs, 0 the empty string
Paragraphs(t) == Fill(t, 1)

\* a is an initial part of b
IsPrefix(a, b) == Len(a) <= Len(b) /\ SubSeq(b, 1, Len(a)) = a

\* C13: a successful handleExpandMore(i) leaves a text of chapter i that is
\* strictly longer than the one before and starts with it, and raises the
\* expansion count of chapter i by exactly 1; a failed one changes neither.
C13_ExpandMoreAppends ==
  [][ev'.op = "handleExpandMore"
       => LET i == ev'.arg
              old == Paragraphs(ArrGet(st.expandedChapters, i))
              new == Paragraphs(ArrGet(st'.expandedChapters, i))
              oldCount == ArrGet(st.expansionCounts, i)
              newCount == ArrGet(st'.expansionCounts, i)
          IN /\ ev'.result = "ok"
                  => /\ Len(new) > Len(old)
                     /\ IsPrefix(old, new)
                     /\ newCount = oldCount + 1
             /\ ev'.result = "fail"
                  => /\ new = old
                     /\ newCount = oldCount]_vars

\* the generation gave text that, cleaned, parses as an array
ParsedArray(g) ==
  /\ g.ok
  /\ JsonParses(cleanJsonResponse(g.raw))
  /\ cleanJsonResponse(g.raw).json.k = "arr"

ArrayLen(g) == Len(g.raw.json.items)

\* C14: the outline endpoint accepts a parsed chapter array exactly when
\* its length is between 6 and 10, both included; an array rejected in the
\* first response is followed by the stricter-prompt generation, and an
\* array in that response is accepted exactly when its length is between 6
\* and 10.
C14_OutlineCountBound ==
  (/\ srv.pc = "answered"
   /\ srv.kind = "outline"
   /\ srv.req.condensedDraft # <<>>
   /\ srv.req.cred
   /\ ParsedArray(srv.g1))
    => /\ (srv.resp.status = 200 /\ srv.resp.gens = 1)
            <=> ArrayLen(srv.g1) \in 6..10
       /\ ArrayLen(srv.g1) \notin 6..10
            => /\ srv.resp.gens = 2
               /\ ParsedArray(srv.g2)
                    => (srv.resp.status = 200 <=> ArrayLen(srv.g2) \in 6..10)

\* an outline of 11 chapters was rejected and the retry's outline of 10
\* chapters accepted
C14_Witness ==
  /\ srv.pc = "answered"
  /\ srv.kind = "outline"
  /\ ParsedArray(srv.g1) /\ ArrayLen(srv.g1) = 11
  /\ ParsedArray(srv.g2) /\ ArrayLen(srv.g2) = 10
  /\ srv.resp.status = 200
  /\ srv.resp.gens = 2
  /\ Len(srv.resp.data[1]) = 10

\* handleSubmit has computed the fingerprint of the draft it was given
SubmitFingerprinted(e) ==
  e.op = "handleSubmit" /\ e.result \in {"analyzing", "resuming"}

\* the state holds progress made for a draft with fingerprint draftHash
HasProgress(c) ==
  /\ c.draftHash # 0
  /\ c.currentStep > 0 \/ c.condensedDraft # <<>>

\* the progress is gone: the pointer and every artifact are reset
Discarded(c) ==
  /\ c.currentStep = 0
  /\ c.currentChapterIndex = 0
  /\ c.condensedDraft = <<>>
  /\ c.keyElements = <<>>
  /\ c.chapters = <<>>
  /\ c.expandedChapters = <<>>

\* C15: when handleSubmit finds that the fingerprint of the submitted draft
\* differs from the fingerprint of the progress held, it does not go on from
\* that progress unannounced: the progress is discarded, or an error or a
\* mismatch status is set, before a stage runs.
C15_StaleDraftNotResumed ==
  [][(/\ SubmitFingerprinted(ev')
      /\ HasProgress(st)
      /\ st'.draftHash # st.draftHash)
       => \/ Discarded(st')
          \/ st'.error # ""
          \/ ev'.result = "mismatch"]_vars

RECURSIVE JoinChunks(_)
\* the chunks in order with the separator chunkText puts between sentences
JoinChunks(chunks) ==
  IF chunks = <<>> THEN <<>>
  ELSE IF Len(chunks) = 1 THEN chunks[1]
  ELSE chunks[1] \o <<"SP">> \o JoinChunks(Tail(chunks))

\* C16: for every text and budget, the chunks chunkText returns, joined in
\* order with the separator used between sentences, are the text itself;
\* nothing of the text is missing from the chunks.
C16_ChunksReproduceText ==
  fn.pc = "chunked" => JoinChunks(fn.chunks) = fn.text

\* the size of a chunk as its chunker measures it: encoded bytes in the
\* frontend, words in the backend
Measured(side, text) ==
  IF side = "frontend" THEN ByteLen(text) ELSE SplitCount(text)

\* the chunk is one sentence of the text that alone exceeds the budget
OversizedSentence(side, text, max, chunk) ==
  \E i \in 1..Len(SentencesOf(text)) :
    /\ chunk = Trim(SentencesOf(text)[i])
    /\ Measured(side, SentencesOf(text)[i]) > max

\* C17: every chunk chunkText(text, maxSize) returns measures at most
\* maxSize (bytes in the frontend, words in the backend), except a chunk
\* that is exactly one sentence which alone exceeds maxSize.
C17_ChunksWithinBudget ==
  fn.pc = "chunked"
    => \A i \in 1..Len(fn.chunks) :
         \/ Measured(fn.side, fn.chunks[i]) <= fn.max
         \/ OversizedSentence(fn.side, fn.text, fn.max, fn.chunks[i])

\* C18: for an empty or whitespace-only text chunkText returns exactly one
\* chunk, and that chunk is the whole text.
C18_BlankTextOneChunk ==
  (fn.pc = "chunked" /\ \A i \in 1..Len(fn.text) : fn.text[i] \in Whitespace)
    => /\ Len(fn.chunks) = 1
       /\ fn.chunks[1] = fn.text

\* C19: for every valid JSON text j, cleaning and parsing j wrapped in a
\* fenced code block, with or without a language tag and with or without a
\* line feed after the closing fence, gives the value parsing j gives.
C19_FencedJsonRoundTrip ==
  (fn.pc = "parsed" /\ fn.fence # "none") => fn.parsed = JsonParse(fn.json)

\* C20: for every text j that is valid JSON already,
\* parse(cleanJsonResponse(j)) is parse(j); string values with a comma
\* followed by ']' or '}' are not altered.
C20_CleanKeepsValidJson ==
  (fn.pc = "parsed" /\ fn.fence = "none" /\ JsonParse(fn.json).ok)
    => fn.parsed = JsonParse(fn.json)

\* C21: after a successful regenerateFromChapterPrompt the keyElements of
\* the state are the merge of the previous key elements with the newly
\* extracted ones (the augmented key elements the run computed).
C21_KeyElementsMerged ==
  [][(ev'.op = "regenerateFromChapterPrompt" /\ ev'.result = "ok")
       => \A s \in Slots :
            (/\ InFlight(s, "regenerateFromChapterPrompt", "outline")
             /\ ops'[s] # ops[s])
              => st'.keyElements = ops[s].acc]_vars

\* C22: the characters of every key-elements value the Extract Elements
\* endpoint answers with have pairwise distinct names.
PairwiseDistinct(names) ==
  \A i \in DOMAIN names : \A j \in DOMAIN names : i # j => names[i] # names[j]
C22_DistinctCharacterNames ==
  (srv.pc = "answered" /\ srv.kind = "extract" /\ srv.resp.status = 200)
    => PairwiseDistinct(srv.resp.data[1].characters)

\* C23: two successful calls for the same requested model, one answered by
\* the requested model and one by the fallback model, do not give their
\* caller the same result.
C23_FallbackDetectable ==
  (/\ gen.pc = "returned"
   /\ gen.prev # <<>>
   /\ gen.prev[1].requested = gen.requested
   /\ gen.prev[1].fellBack # gen.isFallback)
    => gen.prev[1].result # GenResult(gen)

\* C24: a stage endpoint whose generation or parsing finally failed has
\* answered its request with an error response: the failure has not left
\* the handler as a rejected promise with the request unanswered.
C24_FailureAnswered ==
  srv.pc = "answered" => srv.resp.status # 0

\* C25: a request that carries the fields of its endpoint, with no key in
\* its settings and none in the environment (absent, blank or the
\* placeholder), is answered 401, and no completion and no image has been
\* requested for it.
NoCredential ==
  /\ srv.apiKey \in {"none", "", "SP", Placeholder}
  /\ srv.envKey \in {"none", "", Placeholder}
C25_NoCredentialNoCall ==
  (srv.pc # "idle" /\ srv.full /\ NoCredential)
    => /\ srv.pc = "answered"
       /\ srv.resp.status = 401
       /\ srv.resp.gens = 0
       /\ srv.prompts = <<>>
C25_Witness ==
  /\ srv.pc = "answered"
  /\ srv.kind = "image"
  /\ srv.full
  /\ srv.apiKey = "SP"
  /\ srv.envKey = Placeholder
  /\ srv.resp.status = 401

\* C26: when the image calls of the Expand stage for chapter i are over
\* (the text of chapter i has been expanded), the chapter index is i + 1,
\* whatever the image calls gave.
C26_ImageNeverBlocks ==
  [][\A s \in Slots :
       (InFlight(s, "processStep", "image") /\ ops'[s] # ops[s])
         => st'.currentChapterIndex = ops[s].snap.currentChapterIndex + 1]_vars

\* C27: an image request whose first synthesis call was made: a safety
\* rejection of the first call is followed by exactly one call with the
\* safe prompt, and when that call gives no image the answer is a success
\* with imageUrl null; any other failure of the first call is answered
\* with an error and no second call; there are never more than two calls.
C27_SafetyRetryOnce ==
  (srv.pc = "answered" /\ srv.kind = "image" /\ srv.o1 # "")
    => /\ Len(srv.prompts) <= 2
       /\ srv.resp.gens = Len(srv.prompts)
       /\ srv.o1 = "safety"
            => /\ srv.prompts = <<"given", "safe">>
               /\ srv.resp.status = 200
               /\ srv.resp.data = IF srv.o2 = "url" THEN <<"url">>
                                                    ELSE <<"null">>
       /\ srv.o1 \in {"nourl", "other"}
            => /\ srv.prompts = <<"given">>
               /\ srv.resp.status = 500
       /\ srv.o1 = "url"
            => /\ srv.prompts = <<"given">>
               /\ srv.resp.status = 200
               /\ srv.resp.data = <<"url">>
C27_Witness ==
  /\ srv.pc = "answered"
  /\ srv.kind = "image"
  /\ srv.o1 = "safety"
  /\ srv.o2 = "other"
  /\ srv.prompts = <<"given", "safe">>
  /\ srv.resp.status = 200
  /\ srv.resp.data = <<"null">>

\* C28: after clearProgress the step and the chapter index are 0, the
\* condensed draft, the key elements, the chapters, the expanded texts,
\* the expansion counts and the chapter prompts are empty, and neither
\* localStorage nor the story file of the server holds any of them.
NoArtifacts(b) ==
  /\ b.condensedDraft = <<>>
  /\ b.keyElements = <<>>
  /\ b.chapters = <<>>
  /\ b.expandedChapters = <<>>
  /\ b.expansionCounts = <<>>
  /\ b.chapterPrompts = <<>>
C28_ClearForgetsArtifacts ==
  [][ev'.op = "clearProgress"
       => /\ st'.currentStep = 0
          /\ st'.currentChapterIndex = 0
          /\ NoArtifacts(st')
          /\ storage' # <<>> => NoArtifacts(storage'[1])
          /\ srv'.story # <<>> => NoArtifacts(srv'.story[1])]_vars

\* C29: a load that follows a successful save of a state, with no save in
\* between, answers with exactly that state.
C29_LoadReturnsSaved ==
  (srv.pc = "loaded" /\ srv.saved # <<>>)
    => /\ srv.resp.status = 200
       /\ srv.resp.state = srv.saved

\* C30: a regenerateSummary that succeeds leaves the new summary (one
\* summary per chunk of the draft, after the summaries already received)
\* as the condensed draft, null key elements and no chapters, expanded
\* texts, expansion counts or chapter prompts; one that fails leaves the
\* condensed draft and all of these as they were.
Downstream(c) ==
  <<c.keyElements, c.chapters, c.expandedChapters, c.expansionCounts,
    c.chapterPrompts>>
RSFinishing(s) ==
  /\ InFlight(s, "regenerateSummary", "summarize")
  /\ ops'[s] # ops[s]
  /\ ev'.op = "regenerateSummary"
  /\ ev'.result \in {"ok", "fail"}
C30_RegenerateSummaryFrame ==
  [][\A s \in Slots :
       RSFinishing(s)
         => /\ ev'.result = "ok"
              => /\ IsPrefix(ops[s].acc, st'.condensedDraft)
                 /\ Len(st'.condensedDraft)
                      = Len(chunkText(ops[s].snap.draft))
                 /\ Downstream(st') = <<<<>>, <<>>, <<>>, <<>>, <<>>>>
            /\ ev'.result # "ok"
              => /\ st'.condensedDraft = st.condensedDraft
                 /\ Downstream(st') = Downstream(st)]_vars
C30_Witness ==
  /\ ev.op = "regenerateSummary"
  /\ ev.result = "ok"
  /\ storage # <<>>
  /\ storage[1].keyElements # <<>>
  /\ storage[1].chapters # <<>>
  /\ st.condensedDraft # <<>>
  /\ Downstream(st) = <<<<>>, <<>>, <<>>, <<>>, <<>>>>

\* C31: a saved edit of the prompt of chapter k is followed by a
\* propagation run from k.  The handler starts the run before it returns
\* or not at all (nothing is queued), so the step of the save leaves a
\* regenerateFromChapterPrompt(k) in flight, also when another operation is
\* in flight at that moment.
PromptSaved ==
  /\ userOps' = userOps + 1
  /\ \/ ev'.op = "handleSaveChapterPrompt"
     \/ ev'.op = "regenerateFromChapterPrompt" /\ ev'.result = "start"
C31_SavedEditPropagates ==
  [][PromptSaved
       => \E s \in Slots :
            /\ ops'[s].kind = "regenerateFromChapterPrompt"
            /\ ops'[s].arg = ev'.arg
            /\ ops'[s] # ops[s]]_vars

\* C32: a handleRegenerateOutline that succeeds leaves what the propagation
\* from chapter 0 leaves: no expanded text and expansion count 0 for every
\* chapter, and the chapter prompts as they were.
C32_GlobalRegenerationClears ==
  [][(ev'.op = "handleRegenerateOutline" /\ ev'.result = "ok")
       => /\ st'.expandedChapters = Fill(Len(st'.chapters), 0)
          /\ st'.expansionCounts = Fill(Len(st'.chapters), 0)
          /\ \A i \in 1..Len(st'.chapters) :
               st'.chapterPrompts[i] = ArrGet(st.chapterPrompts, i - 1)]_vars

\* C33: the Summarize stage asks for one summary per chunk, in chunk order
\* (i counts the chunks answered, acc holds their summaries in order).  An
\* answered chunk that is not the last adds its summary and commits
\* nothing; the last one commits the summaries of all chunks in order and
\* moves to step 1; a failed chunk ends the run with no further request,
\* the condensed draft and the step as they were.
Summarizing(s) ==
  /\ InFlight(s, "processStep", "summarize")
  /\ ops'[s] # ops[s]
SameRun(s) ==
  /\ ops'[s].kind = "processStep"
  /\ ops'[s].phase = "summarize"
  /\ ops'[s].i > 0
C33_SummarizeAllOrNothing ==
  [][\A s \in Slots :
       Summarizing(s)
         => LET n == Len(chunkText(ops[s].snap.draft))
            IN /\ ops[s].i < n
               /\ Len(ops[s].acc) = ops[s].i
               /\ ev'.result = "chunk"
                    => /\ ops'[s].i = ops[s].i + 1
                       /\ ops'[s].i < n
                       /\ Len(ops'[s].acc) = ops'[s].i
                       /\ IsPrefix(ops[s].acc, ops'[s].acc)
                       /\ st'.condensedDraft = st.condensedDraft
                       /\ st'.currentStep = st.currentStep
               /\ ev'.result = "ok"
                    => /\ ops[s].i + 1 = n
                       /\ Len(st'.condensedDraft) = n
                       /\ IsPrefix(ops[s].acc, st'.condensedDraft)
                       /\ st'.currentStep = 1
               /\ ev'.result \notin {"chunk", "ok"}
                    => /\ ~SameRun(s)
                       /\ st'.condensedDraft = st.condensedDraft
                       /\ st'.currentStep = st.currentStep]_vars
C33_Witness ==
  /\ ev.op = "processStep"
  /\ ev.phase = "summarize"
  /\ ev.result = "ok"
  /\ Len(chunkText(st.draft)) = 2
  /\ Len(st.condensedDraft) = 2
  /\ st.currentStep = 1

\* C34: the digest of the previous chapters built for chapter i is empty
\* for i = 0, is not longer than 1000 characters per previous chapter, and
\* never exceeds the global cap.
C34_DigestBudget ==
  fn.pc = "built"
    => /\ fn.chapterIndex = 0 => fn.digest = 0
       /\ fn.digest <= PerChapterBudget * fn.chapterIndex
       /\ fn.digest <= DigestCap

\* C35: whenever the pipeline is Complete (chapter stage, index past the
\* last chapter), every chapter has a non-empty expanded text.
C35_CompleteMeansAllExpanded ==
  Complete(st) =>
    /\ Len(st.expandedChapters) >= Len(st.chapters)
    /\ \A i \in 1..Len(st.chapters) : HasText(st.expandedChapters[i])

\* C36: the chapter index is never negative and never beyond the outline.
C36_IndexWithinOutline ==
  /\ st.currentChapterIndex >= 0
  /\ st.currentChapterIndex <= Len(st.chapters)

\* C37: the expanded texts, the expansion counts and the chapter prompts
\* always have one entry per chapter of the outline.
C37_ParallelArrays ==
  /\ Len(st.expandedChapters) = Len(st.chapters)
  /\ Len(st.expansionCounts) = Len(st.chapters)
  /\ Len(st.chapterPrompts) = Len(st.chapters)

\* the step in which a handler of slot s writes the text of a chapter: the
\* expansion of processStep, handleExpandMore or handleRegenerateChapter
WritesText(s) ==
  /\ ops[s].kind \in {"processStep", "handleExpandMore",
                      "handleRegenerateChapter"}
  /\ ops[s].phase = "expand"
  /\ ops'[s] # ops[s]
  /\ ev'.op = ops[s].kind
  /\ ev'.result \in {"ok", "text"}

\* C38: the completion of the expansion, further expansion or regeneration
\* of chapter i leaves the expanded text of every other chapter as it was
\* in the state just before the completion.
C38_WritesOnlyOwnEntry ==
  [][\A s \in Slots :
       WritesText(s) =>
         \A j \in 0..MaxChapters :
           j # ev'.arg =>
             ArrGet(st'.expandedChapters, j) = ArrGet(st.expandedChapters, j)]_vars

\* the handler of slot s, in flight when Clear Progress was just clicked,
\* completes
CompletesAfterClear(s) ==
  /\ ev.op = "clearProgress"
  /\ ops[s].kind # "none"
  /\ ops'[s] # ops[s]
  /\ ev'.op = ops[s].kind
  /\ ev'.result \in {"ok", "fail"}

\* C39: when Clear Progress is clicked while a stage or a regeneration is
\* in flight, the state after that operation completes is still the
\* not-started one: pointer at 0, no artifact, nothing persisted.
C39_ClearSurvivesInFlight ==
  [][\A s \in Slots :
       CompletesAfterClear(s)
         => /\ st'.currentStep = 0
            /\ st'.currentChapterIndex = 0
            /\ NoArtifacts(st')
            /\ storage' = <<>>]_vars

\* C40: after a successful regenerateSummary the next stage is the element
\* extraction on the new condensed draft: the stage selected by the state
\* is "extract", and a processStep the auto-advance starts does not send
\* the draft to be summarized again.
C40_NoSecondSummarize ==
  [][\A s \in Slots :
       (RSFinishing(s) /\ ev'.result = "ok")
         => /\ PSBranch(st') = "extract"
            /\ \A t \in Slots :
                 (ops'[t].kind = "processStep" /\ ops'[t] # ops[t])
                   => ops'[t].phase # "summarize"]_vars

====
